---- MODULE Spec2Model ----
(***************************************************************************)
(* A model of the WARP + NextDNS manager: status aggregation, the backup   *)
(* manager, the wgcf profile DNS patch, the quick_setup pipeline, the      *)
(* download retry loop, the CLI commands and the signal handler, the root  *)
(* access check, the security manager, the error handler, the navigation  *)
(* manager, the network monitor and the push-without-workflows script.     *)
(* Every                                                                   *)
(* subsystem has its own specification; the variables of the other         *)
(* subsystems stay at their idle values.                                   *)
(***************************************************************************)
EXTENDS Integers, Sequences, FiniteSets, TLC

VARIABLES
    binding,        \* which collaborator classes the manager holds
    statusResult,   \* the mapping returned by the last get_status call
    status,         \* WarpNextDNSManager.status (self.status)
    probes,         \* what the collaborators answered during that call
    statusCalls,    \* get_status calls made so far
    profile_file,   \* content of wgcf-profile.conf, or NoFile
    generated,      \* content of the profile as wgcf generated it
    patchCount,     \* modify_profile_for_nextdns calls since generation
    retryPc,        \* download_with_retry: "idle", "loop" or "returned"
    max_retries,    \* its max_retries argument
    attempt,        \* its loop variable
    outcomes,       \* what each download attempt did, in order
    waits,          \* the time.sleep calls made: <<attempt, seconds>>
    retryResult,    \* its return value: "none", "True" or "False"
    auto_mode,      \* WarpNextDNSManager.auto_mode
    is_elevated,    \* WarpNextDNSManager.is_elevated
    setupPc,        \* quick_setup: the collaborator call it makes next
    wgcfOk,         \* results['wgcf'] of install_dependencies
    calls,          \* collaborator calls of the current quick_setup run
    effects,        \* what the successful steps have done to the system
    setupResult,    \* its return value: "none", "True" or "False"
    runs,           \* quick_setup runs started
    os_name,        \* os.name: "posix" or "nt"
    clock,          \* the system clock, in ticks
    backup_config,  \* BackupManager.backup_config
    present,        \* the files that exist in the backed-up locations
    archives,       \* the archives in backup_dir: name -> stat and content
    created,        \* successful create_backup calls so far
    lastOp,         \* the operation that returned last: "create", "restore"
    lastCreate,     \* what create_backup returned, if it returned last
    lastDeleted,    \* mtimes of the archives its cleanup deleted
    lastRestore,    \* what restore_backup returned, if it returned last
    restoreLocation,\* the files written below the restore location
    tempLeft,       \* restore_temp_* directories left in backup_dir
    lastVerify,     \* what verify_backup returned, if it returned last
    cliCmd,         \* what runs: a cli.py command or the signal handler
    cliPc,          \* the service call it makes next, or "exited"
    svcCalls,       \* the start_service / stop_service calls it made
    opResult,       \* what the command's operation returned
    message,        \* the outcome message the command printed
    exitCode,       \* the exit code of the process, or NoExit
    system,         \* PlatformUtils.system
    euid,           \* os.geteuid()
    adminQuery,     \* what the IsUserAnAdmin query does
    rootResult,     \* what check_root_access did: "none" before the call
    secClock,       \* the system clock of the security model, in days
    jumps,          \* clock changes made so far
    startups,       \* SecurityManager startups so far
    secOp,          \* the SecurityManager operation that ran last
    key_file,       \* encryption_key.bin: the key it holds and its mtime
    encryption_key, \* SecurityManager.encryption_key of the session
    keyGenerated,   \* whether the last startup generated a key
    firstPersisted, \* the first key ever saved to the key file
    cert_files,     \* mtime of each certificate file, or Absent
    certWritten,    \* the certificate files the last startup wrote
    genError,       \* whether its certificate generation raised
    cipherKey,      \* the key some data was encrypted with, if any
    configValue,    \* the key the config value is encrypted with, if any
    decryptResult,  \* what the last decrypt_data did
    error_callbacks,    \* ErrorHandler.error_callbacks: what each does
    recovery_strategies,\* ErrorHandler.recovery_strategies: context -> kind
    lastError,      \* the arguments of the last handle_error call
    recovery,       \* recovery_result of that call
    errorRaised,    \* the exception that call raised, or "none"
    errorResult,    \* the record that call returned, or NoResult
    invoked,        \* the callbacks that call invoked, in order
    menu_stack,     \* NavigationManager.menu_stack
    current_menu,   \* NavigationManager.current_menu
    menu_history,   \* NavigationManager.menu_history
    frames,         \* the pushes not yet popped: menu and menu before it
    navOp,          \* the NavigationManager call made last
    navResult,      \* what pop_menu or get_current_menu returned last
    navAuto,        \* NavigationManager.auto_mode
    loopPc,         \* run_menu_loop: "idle", "show", "execute" or "left"
    nOptions,       \* len(options) of the running menu loop
    optionsOk,      \* whether every option of the loop has a 'label'
    choice,         \* what show_menu returned in the current iteration
    history_size,   \* NetworkMonitor.history_size
    metrics_history,\* NetworkMonitor.metrics_history: the sample numbers
    is_monitoring,  \* NetworkMonitor.is_monitoring
    monitor_thread, \* NetworkMonitor.monitor_thread, or NoThread
    threadPc,       \* where each _monitor_loop thread is
    pending,        \* the sample each thread took and has not appended
    sampled,        \* samples taken so far, numbered in sampling order
    appended,       \* the samples appended to metrics_history so far
    monPc,          \* the caller: "idle", or "joining" in stop_monitoring
    monOp,          \* the NetworkMonitor call made last
    scriptPc,       \* push-without-workflows.py: where main is
    branch,         \* the commits of the local branch, oldest first
    branchBefore,   \* the commits of the branch before the run
    workflowFiles,  \* whether .github/workflows holds workflow files
    tracked,        \* whether git tracks them (otherwise they are ignored)
    backupFiles,    \* whether /tmp/github-workflows-backup holds them
    has_workflows,  \* has_workflows of main
    pushResult,     \* what git push did: "none", "ok" or "failed"
    exitStatus      \* the exit status of the script, or Running

statusVars == <<statusResult, status, probes, statusCalls>>
patchVars == <<profile_file, generated, patchCount>>
retryVars == <<retryPc, max_retries, attempt, outcomes, waits, retryResult>>
setupVars ==
    <<auto_mode, is_elevated, setupPc, wgcfOk, calls, effects, setupResult, runs>>
cliVars == <<cliCmd, cliPc, svcCalls, opResult, message, exitCode>>
rootVars == <<system, euid, adminQuery, rootResult>>
secVars ==
    <<secClock, jumps, startups, secOp, key_file, encryption_key,
      keyGenerated, firstPersisted, cert_files, certWritten, genError,
      cipherKey, configValue, decryptResult>>
errVars ==
    <<error_callbacks, recovery_strategies, lastError, recovery, errorRaised,
      errorResult, invoked>>
navVars ==
    <<menu_stack, current_menu, menu_history, frames, navOp, navResult,
      navAuto, loopPc, nOptions, optionsOk, choice>>
monVars ==
    <<history_size, metrics_history, is_monitoring, monitor_thread, threadPc,
      pending, sampled, appended, monPc, monOp>>
scriptVars ==
    <<scriptPc, branch, branchBefore, workflowFiles, tracked, backupFiles,
      has_workflows, pushResult, exitStatus>>
extraVars == <<navVars, monVars, scriptVars>>
backupVars ==
    <<os_name, clock, backup_config, present, archives, created, lastOp,
      lastCreate, lastDeleted, lastRestore, restoreLocation, tempLeft,
      lastVerify>>

\* -------------------------------------------------------------------------
\* Collaborators
\* -------------------------------------------------------------------------

\* "repo": the classes of utils/ as shipped.  "mock": the patched
\* collaborators of tests/test_basic.py, which answer every method.
Bindings == {"repo", "mock"}

\* Methods the WGCFManager class defines.
WGCFMethods ==
    {"download_wgcf", "register_account", "generate_profile",
     "modify_profile_for_nextdns", "install_profile", "is_installed",
     "get_status"}

\* Methods the NextDNSManager class defines.
NextDNSMethods ==
    {"is_installed", "is_configured", "get_status", "install", "configure",
     "start", "stop", "restart", "get_logs", "test_connection"}

\* What a call of method m on the wgcf manager can do: "true" / "false" for
\* a truthy / falsy (or success / no-success) return, "raise" for an
\* exception.  A method the class does not define raises AttributeError.
WgcfAnswers(b, m) ==
    IF b = "mock" THEN {"true", "false", "raise"}
    ELSE IF m \notin WGCFMethods THEN {"raise"}
    ELSE IF m = "is_installed" THEN {"true", "false"}
    ELSE {"true", "false", "raise"}

\* The same for the NextDNS manager.  configure() returns the bool True
\* where its caller subscripts a dict: answer "bool".
NextDNSAnswers(b, m) ==
    IF b = "mock" THEN {"true", "false", "raise"}
    ELSE IF m \notin NextDNSMethods THEN {"raise"}
    ELSE IF m = "configure" THEN {"bool", "raise"}
    ELSE {"true", "false", "raise"}

\* -------------------------------------------------------------------------
\* WarpNextDNSManager.get_status
\* -------------------------------------------------------------------------

Components ==
    {"System", "WARP Service", "NextDNS Service", "WGCF Tool", "NextDNS Tool",
     "Internet Connection", "WARP IP", "DNS Servers"}

\* The value of statusResult before the first call.
NoStatus == <<>>

\* check_internet_connection, get_warp_ip and get_dns_servers catch every
\* exception themselves and return a falsy value instead.
ProbeAnswers == {"true", "false"}

\* The mapping get_status builds from the seven answers; any exception in
\* the try block yields the single 'Error' entry.
StatusMap(warp, nextdns, wgcfTool, nextdnsTool, internet, warpIp, dns) ==
    IF "raise" \in {warp, nextdns, wgcfTool, nextdnsTool}
    THEN [k \in {"Error"} |->
            [status |-> "Failed", details |-> "Status check failed"]]
    ELSE [k \in Components \cup {"Last Updated"} |->
            CASE k = "System" ->
                   [status |-> "Active", details |-> "platform"]
              [] k = "WARP Service" ->
                   [status |-> IF warp = "true" THEN "Running" ELSE "Stopped",
                    details |-> "Service status unknown"]
              [] k = "NextDNS Service" ->
                   [status |-> IF nextdns = "true" THEN "Running" ELSE "Stopped",
                    details |-> "Service status unknown"]
              [] k = "WGCF Tool" ->
                   [status |-> IF wgcfTool = "true" THEN "Installed"
                                                    ELSE "Not Installed",
                    details |-> "WireGuard configuration tool"]
              [] k = "NextDNS Tool" ->
                   [status |-> IF nextdnsTool = "true" THEN "Installed"
                                                       ELSE "Not Installed",
                    details |-> "DNS filtering tool"]
              [] k = "Internet Connection" ->
                   [status |-> IF internet = "true" THEN "Connected"
                                                    ELSE "Disconnected",
                    details |-> "Network connectivity check"]
              [] k = "WARP IP" ->
                   [status |-> IF warpIp = "true" THEN "Active" ELSE "Inactive",
                    details |-> IF warpIp = "true" THEN "ip"
                                ELSE "No WARP IP detected"]
              [] k = "DNS Servers" ->
                   [status |-> IF dns = "true" THEN "Configured"
                                                ELSE "Not Configured",
                    details |-> IF dns = "true" THEN "servers"
                                ELSE "No DNS servers found"]
              [] OTHER ->
                   [status |-> "HH:MM:SS", details |-> "Real-time status"]]

MaxStatusCalls == 2

\* The value of probes before the first call.
NoProbes == <<>>

\* GetStatus with a cache: the first result is kept in self.status and
\* returned by every later call.
GetStatusMutant ==
    /\ statusCalls < MaxStatusCalls
    /\ statusCalls' = statusCalls + 1
    /\ \E warp \in WgcfAnswers(binding, "get_service_status"),
          nextdns \in NextDNSAnswers(binding, "get_service_status"),
          wgcfTool \in WgcfAnswers(binding, "is_installed"),
          nextdnsTool \in NextDNSAnswers(binding, "is_installed"),
          internet \in ProbeAnswers, warpIp \in ProbeAnswers,
          dns \in ProbeAnswers :
           LET fresh == StatusMap(warp, nextdns, wgcfTool, nextdnsTool,
                                  internet, warpIp, dns)
           IN  /\ probes' = <<warp, nextdns, wgcfTool, nextdnsTool,
                              internet, warpIp, dns>>
               /\ statusResult' = IF status # NoStatus THEN status ELSE fresh
               /\ status' = IF status # NoStatus THEN status ELSE fresh
    /\ UNCHANGED binding

\* One get_status call: everything it computes is held in local variables.
GetStatus ==
    /\ statusCalls < MaxStatusCalls
    /\ statusCalls' = statusCalls + 1
    /\ \E warp \in WgcfAnswers(binding, "get_service_status"),
          nextdns \in NextDNSAnswers(binding, "get_service_status"),
          wgcfTool \in WgcfAnswers(binding, "is_installed"),
          nextdnsTool \in NextDNSAnswers(binding, "is_installed"),
          internet \in ProbeAnswers, warpIp \in ProbeAnswers,
          dns \in ProbeAnswers :
           /\ probes' = <<warp, nextdns, wgcfTool, nextdnsTool,
                          internet, warpIp, dns>>
           /\ statusResult' =
                StatusMap(warp, nextdns, wgcfTool, nextdnsTool,
                          internet, warpIp, dns)
    /\ UNCHANGED <<binding, status>>

StatusIdle ==
    /\ statusResult = NoStatus
    /\ status = NoStatus
    /\ probes = NoProbes
    /\ statusCalls = 0

\* -------------------------------------------------------------------------
\* WGCFManager.modify_profile_for_nextdns
\* -------------------------------------------------------------------------

MaxLines == 3
MaxPatches == 3

NoFile == <<"<absent>">>

\* File content is a sequence of text pieces; the pieces are the units the
\* patch's search strings are made of.
NL == "\n"
CloudflareDNS1 == <<"DNS = ", "1.1.1.1">>
CloudflareDNS2 == <<"DNS = ", "1.0.0.1">>
LocalDNS == <<"DNS = ", "127.0.0.1">>
Hash == <<"#">>

\* Lines a generated profile is made of: some other setting, a DNS line
\* naming one Cloudflare resolver, or the DNS line naming both.
ProfileLines ==
    {<<"K">>, CloudflareDNS1, CloudflareDNS2,
     <<"DNS = ", "1.1.1.1", ", ", "1.0.0.1">>}

RECURSIVE JoinLines(_)
JoinLines(ls) ==
    IF ls = <<>> THEN <<>> ELSE Head(ls) \o <<NL>> \o JoinLines(Tail(ls))

RECURSIVE SplitLines(_, _)
\* content.split('\n') without the empty piece after the last newline
SplitLines(s, cur) ==
    IF s = <<>> THEN (IF cur = <<>> THEN <<>> ELSE <<cur>>)
    ELSE IF Head(s) = NL THEN <<cur>> \o SplitLines(Tail(s), <<>>)
    ELSE SplitLines(Tail(s), Append(cur, Head(s)))

GeneratedProfiles ==
    {JoinLines(ls) : ls \in UNION {[1..n -> ProfileLines] : n \in 1..MaxLines}}

StartsWith(s, p) == Len(s) >= Len(p) /\ SubSeq(s, 1, Len(p)) = p

\* the `in` operator of str
Contains(s, p) ==
    \E i \in 1..(Len(s) - Len(p) + 1) : SubSeq(s, i, i + Len(p) - 1) = p

RECURSIVE StrReplace(_, _, _)
\* str.replace: every non-overlapping occurrence, scanning left to right
StrReplace(s, old, new) ==
    IF s = <<>> THEN <<>>
    ELSE IF StartsWith(s, old)
         THEN new \o StrReplace(SubSeq(s, Len(old) + 1, Len(s)), old, new)
         ELSE <<Head(s)>> \o StrReplace(Tail(s), old, new)

\* The new content modify_profile_for_nextdns writes for content c.
PatchedContent(c) ==
    LET c1 == StrReplace(c, CloudflareDNS1, Hash \o CloudflareDNS1)
        c2 == StrReplace(c1, CloudflareDNS2, Hash \o CloudflareDNS2)
    IN  IF Contains(c2, <<"#", "DNS = ">>) /\ ~Contains(c2, LocalDNS)
        THEN StrReplace(c2, Hash \o CloudflareDNS1,
                        Hash \o CloudflareDNS1 \o <<NL>> \o LocalDNS)
        ELSE c2

\* `wgcf generate` (run by generate_profile) writes a fresh profile.
GenerateProfile ==
    /\ \E p \in GeneratedProfiles :
         /\ profile_file' = p
         /\ generated' = p
    /\ patchCount' = 0
    /\ UNCHANGED <<binding, statusVars>>

\* modify_profile_for_nextdns; without a profile file it raises before
\* touching anything.
ModifyProfileForNextDNS ==
    /\ profile_file # NoFile
    /\ patchCount < MaxPatches
    /\ profile_file' = PatchedContent(profile_file)
    /\ patchCount' = patchCount + 1
    /\ UNCHANGED <<binding, statusVars, generated>>

PatchIdle ==
    /\ profile_file = NoFile
    /\ generated = NoFile
    /\ patchCount = 0

\* -------------------------------------------------------------------------
\* WarpNextDNSManager.download_with_retry
\* -------------------------------------------------------------------------

DefaultMaxRetries == 3
MaxRetriesArg == 4

\* InstallerManager.download_with_progress catches every exception and
\* returns False; a patched installer may also raise.
InstallerAnswers(b, m) ==
    IF b = "mock" THEN {"true", "false", "raise"}
    ELSE IF m = "download_with_progress" THEN {"true", "false"}
    ELSE {"true", "false", "raise"}

\* RetryAfter with the loop bound off by one (range(max_retries + 1)).
RetryAfterMutant(o, att, max) ==
    IF o = "true"
    THEN [pc |-> "returned", result |-> "True", attempt |-> att]
    ELSE IF att + 1 < max + 1
         THEN [pc |-> "loop", result |-> "none", attempt |-> att + 1]
         ELSE [pc |-> "returned", result |-> "False", attempt |-> att + 1]

\* Where the loop stands after the iteration `att` whose download did o.
RetryAfter(o, att, max) ==
    IF o = "true"
    THEN [pc |-> "returned", result |-> "True", attempt |-> att]
    ELSE IF att + 1 < max
         THEN [pc |-> "loop", result |-> "none", attempt |-> att + 1]
         ELSE [pc |-> "returned", result |-> "False", attempt |-> att + 1]

\* The sleeps of one iteration: only the except branch sleeps.
BackoffOf(o, att, max) ==
    IF o = "raise" /\ att < max - 1 THEN <<(<<att, 2 ^ att>>)>> ELSE <<>>

\* A call download_with_retry(url, dest, max); range(0) runs no iteration.
DownloadWithRetry ==
    /\ retryPc \in {"idle", "returned"}
    /\ \E max \in 0..MaxRetriesArg :
         /\ max_retries' = max
         /\ retryPc' = IF max = 0 THEN "returned" ELSE "loop"
         /\ retryResult' = IF max = 0 THEN "False" ELSE "none"
    /\ attempt' = 0
    /\ outcomes' = <<>>
    /\ waits' = <<>>
    /\ UNCHANGED <<binding, statusVars, patchVars, setupVars>>

\* One iteration of the for loop.
DownloadAttempt ==
    /\ retryPc = "loop"
    /\ \E o \in InstallerAnswers(binding, "download_with_progress") :
         LET after == RetryAfter(o, attempt, max_retries)
         IN  /\ outcomes' = Append(outcomes, o)
             /\ waits' = waits \o BackoffOf(o, attempt, max_retries)
             /\ retryPc' = after.pc
             /\ retryResult' = after.result
             /\ attempt' = after.attempt
    /\ UNCHANGED <<binding, statusVars, patchVars, setupVars, max_retries>>

RetryIdle ==
    /\ retryPc = "idle"
    /\ max_retries = DefaultMaxRetries
    /\ attempt = 0
    /\ outcomes = <<>>
    /\ waits = <<>>
    /\ retryResult = "none"

\* -------------------------------------------------------------------------
\* WarpNextDNSManager.quick_setup
\* -------------------------------------------------------------------------

MaxRuns == 2

\* PlatformUtils.check_root_access never raises.
PlatformAnswers(b, m) ==
    IF b = "mock" THEN {"true", "false", "raise"} ELSE {"true", "false"}

\* InstallerManager.auto_elevate replaces the process (os.execvp) or ends
\* it (sys.exit after ShellExecuteW) when it elevates: answer "leave".
ElevateAnswers(b) ==
    IF b = "mock" THEN {"true", "false", "raise"}
    ELSE {"true", "false", "leave"}

\* The collaborator calls of quick_setup in program order, each with the
\* object and the method called.
SetupSteps ==
    << [pc |-> "root_check",           obj |-> "platform",  m |-> "check_root_access"],
       [pc |-> "auto_elevate",         obj |-> "installer", m |-> "auto_elevate"],
       [pc |-> "install_wgcf",         obj |-> "wgcf",      m |-> "install"],
       [pc |-> "install_nextdns",      obj |-> "nextdns",   m |-> "install"],
       [pc |-> "wgcf_is_installed",    obj |-> "wgcf",      m |-> "is_installed"],
       [pc |-> "register",             obj |-> "wgcf",      m |-> "register"],
       [pc |-> "generate",             obj |-> "wgcf",      m |-> "generate_config"],
       [pc |-> "nextdns_is_installed", obj |-> "nextdns",   m |-> "is_installed"],
       [pc |-> "configure",            obj |-> "nextdns",   m |-> "configure"],
       [pc |-> "create_warp",          obj |-> "wgcf",      m |-> "create_service"],
       [pc |-> "create_nextdns",       obj |-> "nextdns",   m |-> "create_service"],
       [pc |-> "start_warp",           obj |-> "wgcf",      m |-> "start_service"],
       [pc |-> "start_nextdns",        obj |-> "nextdns",   m |-> "start_service"] >>

StepPcs == {SetupSteps[i].pc : i \in 1..Len(SetupSteps)}

Rank(pc) == CHOOSE i \in 1..Len(SetupSteps) : SetupSteps[i].pc = pc

StepAnswers(b, pc) ==
    LET st == SetupSteps[Rank(pc)]
    IN  CASE st.obj = "platform" -> PlatformAnswers(b, st.m)
          [] st.obj = "installer" -> ElevateAnswers(b)
          [] st.obj = "wgcf" -> WgcfAnswers(b, st.m)
          [] OTHER -> NextDNSAnswers(b, st.m)

\* SetupGoto without the `if not warp_started: return False` of
\* start_services.
SetupGotoMutant(pc, o, auto, wOk) ==
    CASE pc = "root_check" ->
           (IF o = "true" THEN "install_wgcf"
            ELSE IF o = "false" THEN "auto_elevate" ELSE "fail")
      [] pc = "auto_elevate" ->
           (IF o = "true" THEN "install_wgcf"
            ELSE IF o = "leave" THEN "left" ELSE "fail")
      [] pc = "install_wgcf" -> "install_nextdns"
      [] pc = "install_nextdns" ->
           (IF o = "true" /\ wOk THEN "wgcf_is_installed" ELSE "fail")
      [] pc = "wgcf_is_installed" -> (IF o = "true" THEN "register" ELSE "fail")
      [] pc = "register" -> (IF o = "true" THEN "generate" ELSE "fail")
      [] pc = "generate" ->
           (IF o # "true" THEN "fail"
            ELSE IF auto THEN "nextdns_is_installed" ELSE "create_warp")
      [] pc = "nextdns_is_installed" ->
           (IF o = "true" THEN "configure" ELSE "fail")
      [] pc = "configure" -> (IF o = "true" THEN "create_warp" ELSE "fail")
      [] pc = "create_warp" -> (IF o = "true" THEN "create_nextdns" ELSE "fail")
      [] pc = "create_nextdns" -> (IF o = "true" THEN "start_warp" ELSE "fail")
      [] pc = "start_warp" -> "start_nextdns"
      [] OTHER -> (IF o = "true" THEN "ok" ELSE "fail")

\* Where quick_setup goes after the call at pc answered o: the next call,
\* "fail" (return False), "ok" (return True) or "left" (process gone).
SetupGoto(pc, o, auto, wOk) ==
    CASE pc = "root_check" ->
           (IF o = "true" THEN "install_wgcf"
            ELSE IF o = "false" THEN "auto_elevate" ELSE "fail")
      [] pc = "auto_elevate" ->
           (IF o = "true" THEN "install_wgcf"
            ELSE IF o = "leave" THEN "left" ELSE "fail")
      [] pc = "install_wgcf" -> "install_nextdns"
      [] pc = "install_nextdns" ->
           (IF o = "true" /\ wOk THEN "wgcf_is_installed" ELSE "fail")
      [] pc = "wgcf_is_installed" -> (IF o = "true" THEN "register" ELSE "fail")
      [] pc = "register" -> (IF o = "true" THEN "generate" ELSE "fail")
      [] pc = "generate" ->
           (IF o # "true" THEN "fail"
            ELSE IF auto THEN "nextdns_is_installed" ELSE "create_warp")
      [] pc = "nextdns_is_installed" ->
           (IF o = "true" THEN "configure" ELSE "fail")
      [] pc = "configure" -> (IF o = "true" THEN "create_warp" ELSE "fail")
      [] pc = "create_warp" -> (IF o = "true" THEN "create_nextdns" ELSE "fail")
      [] pc = "create_nextdns" -> (IF o = "true" THEN "start_warp" ELSE "fail")
      [] pc = "start_warp" -> (IF o = "true" THEN "start_nextdns" ELSE "fail")
      [] OTHER -> (IF o = "true" THEN "ok" ELSE "fail")

\* What a call that did its work leaves behind in the system.
EffectOf(pc, o) ==
    IF o \notin {"true", "bool"} THEN {}
    ELSE CASE pc = "install_wgcf" -> {"wgcf_cli"}
           [] pc = "install_nextdns" -> {"nextdns_cli"}
           [] pc = "register" -> {"account"}
           [] pc = "generate" -> {"profile"}
           [] pc = "configure" -> {"nextdns_config"}
           [] pc = "create_warp" -> {"warp_unit"}
           [] pc = "create_nextdns" -> {"nextdns_unit"}
           [] pc = "start_warp" -> {"warp_started"}
           [] pc = "start_nextdns" -> {"nextdns_started"}
           [] OTHER -> {}

\* EffectsAfter with a failure path that stops the services and removes
\* the service units again.
EffectsAfterMutant(eff, pc, o, goto) ==
    IF goto = "fail" THEN eff \ {"warp_started", "nextdns_started",
                                  "warp_unit", "nextdns_unit"}
    ELSE eff \cup EffectOf(pc, o)

\* The system after the call at pc answered o; quick_setup has no
\* except / finally branch that undoes anything.
EffectsAfter(eff, pc, o, goto) == eff \cup EffectOf(pc, o)

\* quick_setup is entered; ensure_elevation skips the root check when
\* is_elevated is already set.
QuickSetup ==
    /\ setupPc \in {"idle", "returned"}
    /\ runs < MaxRuns
    /\ runs' = runs + 1
    /\ setupPc' = IF is_elevated THEN "install_wgcf" ELSE "root_check"
    /\ calls' = <<>>
    /\ wgcfOk' = FALSE
    /\ setupResult' = "none"
    /\ UNCHANGED <<binding, statusVars, patchVars, retryVars,
                   auto_mode, is_elevated, effects>>

\* One collaborator call of quick_setup, at a pc among pcs, and the
\* control flow up to the next call or the return.
SetupStep(pcs) ==
    /\ setupPc \in pcs
    /\ \E o \in StepAnswers(binding, setupPc) :
         LET goto == SetupGoto(setupPc, o, auto_mode, wgcfOk)
         IN  /\ calls' = Append(calls, [pc |-> setupPc, o |-> o])
             /\ effects' = EffectsAfter(effects, setupPc, o, goto)
             /\ wgcfOk' = IF setupPc = "install_wgcf" THEN o = "true" ELSE wgcfOk
             /\ is_elevated' =
                  (is_elevated \/
                     (setupPc \in {"root_check", "auto_elevate"} /\ o = "true"))
             /\ setupPc' = CASE goto \in {"ok", "fail"} -> "returned"
                              [] goto = "left" -> "left"
                              [] OTHER -> goto
             /\ setupResult' = CASE goto = "ok" -> "True"
                                  [] goto = "fail" -> "False"
                                  [] OTHER -> "none"
    /\ UNCHANGED <<binding, statusVars, patchVars, retryVars, auto_mode, runs>>

EnsureElevation == SetupStep({"root_check", "auto_elevate"})
InstallDependencies == SetupStep({"install_wgcf", "install_nextdns"})
SetupWgcf == SetupStep({"wgcf_is_installed", "register", "generate"})
SetupNextDNSConfig == SetupStep({"nextdns_is_installed", "configure"})
CreateSystemdServices == SetupStep({"create_warp", "create_nextdns"})
StartServices == SetupStep({"start_warp", "start_nextdns"})

SetupIdle ==
    /\ auto_mode = FALSE
    /\ is_elevated = FALSE
    /\ setupPc = "idle"
    /\ wgcfOk = FALSE
    /\ calls = <<>>
    /\ effects = {}
    /\ setupResult = "none"
    /\ runs = 0

\* -------------------------------------------------------------------------
\* BackupManager
\* -------------------------------------------------------------------------

DefaultMaxBackups == 10
MaxBackupsCfg == 2
TicksPerSecond == 3
MaxClock == 4

\* The files create_backup looks for, as <<backup subdirectory, name>>.
SourceFiles ==
    {<<"wireguard", "wgcf.conf">>, <<"logs", "warp-nextdns.log">>}

\* A backup_config.json the manager can load: max_backups and compression.
Configs ==
    [max_backups : 1..MaxBackupsCfg, compression : BOOLEAN]

NoCreate == [success |-> FALSE, name |-> <<>>, files |-> {}]
NoRestore == [success |-> FALSE, restored_files |-> {}, error |-> "none", name |-> <<>>]
NoVerify == [valid |-> FALSE, error |-> "none", name |-> <<>>]

\* strftime("%Y%m%d_%H%M%S"): the clock cut to whole seconds
Timestamp(now) == now \div TicksPerSecond

\* The archive file name, as its dot-separated pieces:
\* warp_nextdns_backup_<timestamp>.tar.gz or ....zip
ArchiveName(stamp, compression) ==
    IF compression THEN <<stamp, "tar", "gz">> ELSE <<stamp, "zip">>

ArchiveNames ==
    {ArchiveName(Timestamp(t), c) : t \in 0..MaxClock, c \in BOOLEAN}

\* Path.suffix: the last dot-separated piece of the name
Suffix(name) == <<name[Len(name)]>>

\* metadata['files']: what the _backup_* helpers copied
MetadataFiles(pres, include_logs) ==
    {f \in pres : f[1] = "logs" => include_logs}

\* The directories create_backup makes below the backup directory.
BackupSubdirs(pres, include_logs) ==
    {"nextdns", "config"} \cup {f[1] : f \in MetadataFiles(pres, include_logs)}
        \cup (IF include_logs THEN {"logs"} ELSE {})

\* The members _create_archive writes.  tar.add(backup_path, arcname=name)
\* puts the whole tree below the directory "root" (the backup name); the
\* zip branch writes the files only, relative to the backup directory.
ArchiveFiles(compression, pres, include_logs) ==
    LET fs == MetadataFiles(pres, include_logs) \cup {<<"metadata.json">>}
    IN  IF compression THEN {<<"root">> \o f : f \in fs} ELSE fs

ArchiveDirs(compression, pres, include_logs) ==
    IF compression
    THEN {<<"root">>} \cup {<<"root", d>> : d \in BackupSubdirs(pres, include_logs)}
    ELSE {}

\* st_ctime of a file written at `now`: the time of the write on POSIX,
\* the creation time of the file on Windows, which an overwrite keeps.
CtimeAfterWrite(os, arch, name, now) ==
    IF os = "nt" /\ name \in DOMAIN arch THEN arch[name].ctime ELSE now

Perms(S) ==
    {s \in [1..Cardinality(S) -> S] : \A i, j \in 1..Cardinality(S) : i # j => s[i] # s[j]}

\* list_backups: every archive of backup_dir, sorted by 'created' (the ISO
\* form of st_ctime, which orders as st_ctime does), newest first.
ListBackups(arch) ==
    {s \in Perms(DOMAIN arch) :
        \A i, j \in 1..Len(s) : i < j => arch[s[i]].ctime >= arch[s[j]].ctime}

\* _cleanup_old_backups on the listing s: the names that stay.
KeptNames(s, max) ==
    IF Len(s) > max THEN {s[i] : i \in 1..max} ELSE {s[i] : i \in 1..Len(s)}

\* BackupManager(): _load_backup_config reads backup_config.json.
Startup ==
    /\ \E cfg \in Configs : backup_config' = cfg
    /\ lastOp' = "none"
    /\ lastCreate' = NoCreate
    /\ lastDeleted' = {}
    /\ lastRestore' = NoRestore
    /\ lastVerify' = NoVerify
    /\ UNCHANGED <<os_name, clock, present, archives, created,
                   restoreLocation, tempLeft>>

\* time passes
Tick ==
    /\ clock < MaxClock
    /\ clock' = clock + 1
    /\ lastOp' = "none"
    /\ lastCreate' = NoCreate
    /\ lastDeleted' = {}
    /\ lastRestore' = NoRestore
    /\ lastVerify' = NoVerify
    /\ UNCHANGED <<os_name, backup_config, present, archives, created,
                   restoreLocation, tempLeft>>

\* create_backup: copy, write metadata, archive, remove the directory,
\* clean up old backups.  An I/O error anywhere yields success False.
CreateBackup ==
    /\ clock < MaxClock
    /\ \E include_logs \in BOOLEAN, io \in {"ok", "error"} :
         LET name == ArchiveName(Timestamp(clock), backup_config.compression)
             new == [ctime |-> CtimeAfterWrite(os_name, archives, name, clock),
                     mtime |-> clock,
                     files |-> ArchiveFiles(backup_config.compression, present,
                                            include_logs),
                     dirs |-> ArchiveDirs(backup_config.compression, present,
                                          include_logs),
                     meta |-> MetadataFiles(present, include_logs)]
             written == [n \in DOMAIN archives \cup {name} |->
                           IF n = name THEN new ELSE archives[n]]
         IN  IF io = "ok"
             THEN \E s \in ListBackups(written) :
                    LET kept == KeptNames(s, backup_config.max_backups)
                    IN  /\ archives' = [n \in kept |-> written[n]]
                        /\ lastDeleted' =
                             {written[n].mtime : n \in DOMAIN written \ kept}
                        /\ created' = created + 1
                        /\ lastCreate' = [success |-> TRUE, name |-> name,
                                          files |-> new.meta]
             ELSE /\ lastCreate' = NoCreate
                  /\ lastDeleted' = {}
                  /\ UNCHANGED <<archives, created>>
    /\ clock' = clock + 1
    /\ lastOp' = "create"
    /\ lastRestore' = NoRestore
    /\ lastVerify' = NoVerify
    /\ UNCHANGED <<os_name, backup_config, present, restoreLocation, tempLeft>>

RestoredDirs == {"wireguard", "nextdns", "logs", "security"}

\* the entries of the directory the archive was extracted into
TopLevel(a) == {p[1] : p \in a.files \cup a.dirs}

IsDir(a, e) ==
    \/ <<e>> \in a.dirs
    \/ \E p \in a.files \cup a.dirs : Len(p) > 1 /\ p[1] = e

\* restore_backup(backup_path): extract into a temporary directory, take
\* the first entry of that directory as the backup, copy its files.
RestoreOutcome(a, name, first) ==
    IF Suffix(name) # <<"tar", "gz">> /\ Suffix(name) # <<"zip">>
    THEN [success |-> FALSE, restored_files |-> {},
          error |-> "Unsupported backup format", name |-> name]
    ELSE IF ~IsDir(a, first)
    THEN [success |-> FALSE, restored_files |-> {},
          error |-> "Invalid backup structure", name |-> name]
    ELSE IF <<first, "metadata.json">> \notin a.files
    THEN [success |-> FALSE, restored_files |-> {},
          error |-> "Backup metadata not found", name |-> name]
    ELSE [success |-> TRUE,
          restored_files |->
             {<<p[2], p[3]>> : p \in {q \in a.files :
                 Len(q) = 3 /\ q[1] = first /\ q[2] \in RestoredDirs}},
          error |-> "none", name |-> name]

RestoreBackup ==
    /\ \E name \in ArchiveNames :
         IF name \notin DOMAIN archives
         THEN /\ lastRestore' = [success |-> FALSE, restored_files |-> {},
                                 error |-> "Backup file not found", name |-> name]
              /\ UNCHANGED <<restoreLocation, tempLeft>>
         ELSE \E first \in TopLevel(archives[name]) :
                LET r == RestoreOutcome(archives[name], name, first)
                IN  /\ lastRestore' = r
                    /\ restoreLocation' = restoreLocation \cup r.restored_files
                    /\ tempLeft' = (tempLeft \/ ~r.success)
    /\ lastOp' = "restore"
    /\ lastCreate' = NoCreate
    /\ lastDeleted' = {}
    /\ lastVerify' = NoVerify
    /\ UNCHANGED <<os_name, clock, backup_config, present, archives, created>>

\* verify_backup(backup_path) on an archive of backup_dir: extract into a
\* temporary directory, take the first entry of that directory as the
\* backup, look for its metadata.json and for the files the metadata lists.
\* (create_backup always writes the fields 'timestamp', 'version', 'files'.)
VerifyOutcome(a, name, first) ==
    IF Suffix(name) # <<"tar", "gz">> /\ Suffix(name) # <<"zip">>
    THEN [valid |-> FALSE, error |-> "Unsupported backup format", name |-> name]
    ELSE IF <<first, "metadata.json">> \notin a.files
    THEN [valid |-> FALSE, error |-> "Backup metadata not found", name |-> name]
    ELSE IF \E f \in a.meta : <<first>> \o f \notin a.files
    THEN [valid |-> FALSE, error |-> "Missing files in backup", name |-> name]
    ELSE [valid |-> TRUE, error |-> "none", name |-> name]

\* verify_backup: its temporary directory is removed in a finally block,
\* so the call changes nothing in backup_dir.
VerifyBackup ==
    /\ \E name \in ArchiveNames :
         IF name \notin DOMAIN archives
         THEN lastVerify' = [valid |-> FALSE, error |-> "Backup file not found",
                             name |-> name]
         ELSE \E first \in TopLevel(archives[name]) :
                lastVerify' = VerifyOutcome(archives[name], name, first)
    /\ lastOp' = "verify"
    /\ lastCreate' = NoCreate
    /\ lastDeleted' = {}
    /\ lastRestore' = NoRestore
    /\ UNCHANGED <<os_name, clock, backup_config, present, archives, created,
                   restoreLocation, tempLeft>>

BackupIdle ==
    /\ os_name = "posix"
    /\ clock = 0
    /\ backup_config = [max_backups |-> DefaultMaxBackups, compression |-> TRUE]
    /\ present = {}
    /\ archives = <<>>
    /\ created = 0
    /\ lastOp = "none"
    /\ lastCreate = NoCreate
    /\ lastDeleted = {}
    /\ lastRestore = NoRestore
    /\ restoreLocation = {}
    /\ tempLeft = FALSE
    /\ lastVerify = NoVerify

\* -------------------------------------------------------------------------
\* cli.py setup / start / stop and the manager's signal handler
\* -------------------------------------------------------------------------

NoExit == -1

\* The collaborator call made at a pc of start_services / stop_services.
ServiceSteps ==
    [start_warp    |-> [obj |-> "wgcf",    m |-> "start_service"],
     start_nextdns |-> [obj |-> "nextdns", m |-> "start_service"],
     stop_warp     |-> [obj |-> "wgcf",    m |-> "stop_service"],
     stop_nextdns  |-> [obj |-> "nextdns", m |-> "stop_service"]]

ServiceAnswers(b, pc) ==
    IF ServiceSteps[pc].obj = "wgcf" THEN WgcfAnswers(b, ServiceSteps[pc].m)
    ELSE NextDNSAnswers(b, ServiceSteps[pc].m)

\* Where stop_services goes after the call at pc answered o: a falsy answer
\* is logged as a warning and the function goes on; only an exception
\* leaves the try block and makes it return False.
StopGoto(pc, o) ==
    IF o = "raise" THEN "fail"
    ELSE IF pc = "stop_warp" THEN "stop_nextdns" ELSE "ok"

\* What a CLI command prints and how it ends for the truth value its
\* operation returned: falling off the command is exit code 0.
CliReport(result) ==
    IF result = "True" THEN [message |-> "success", exit |-> 0]
    ELSE [message |-> "failure", exit |-> 1]

\* `cli.py setup`: a new manager, then quick_setup.
CliSetup ==
    /\ cliPc \in {"idle", "exited"}
    /\ cliCmd' = "setup"
    /\ cliPc' = "setup"
    /\ svcCalls' = <<>>
    /\ opResult' = "none"
    /\ message' = "none"
    /\ exitCode' = NoExit
    /\ auto_mode' \in BOOLEAN
    /\ is_elevated' = FALSE
    /\ setupPc' = "root_check"
    /\ calls' = <<>>
    /\ wgcfOk' = FALSE
    /\ setupResult' = "none"
    /\ UNCHANGED <<effects, runs>>

\* One collaborator call of the quick_setup the setup command runs.
CliSetupStep ==
    /\ cliPc = "setup"
    /\ SetupStep(StepPcs)
    /\ UNCHANGED <<cliCmd, cliPc, svcCalls, opResult, message, exitCode>>

\* quick_setup is over: it returned, or auto_elevate replaced the process
\* (os.execvp) or ended it (sys.exit(0) after ShellExecuteW).
CliSetupDone ==
    /\ cliPc = "setup"
    /\ setupPc \in {"returned", "left"}
    /\ cliPc' = "exited"
    /\ opResult' = setupResult
    /\ IF setupPc = "left"
       THEN /\ message' = "none"
            /\ exitCode' \in {0, 1}
       ELSE /\ message' = CliReport(setupResult).message
            /\ exitCode' = CliReport(setupResult).exit
    /\ UNCHANGED <<cliCmd, svcCalls>>

\* `cli.py start` / `cli.py stop`: a new manager, then start_services or
\* stop_services.
CliStartStop ==
    /\ cliPc \in {"idle", "exited"}
    /\ \E cmd \in {"start", "stop"} :
         /\ cliCmd' = cmd
         /\ cliPc' = IF cmd = "start" THEN "start_warp" ELSE "stop_warp"
    /\ svcCalls' = <<>>
    /\ opResult' = "none"
    /\ message' = "none"
    /\ exitCode' = NoExit

\* SIGINT / SIGTERM while the manager lives: _signal_handler runs cleanup,
\* which runs stop_services.
SignalHandler ==
    /\ cliPc # "exited"
    /\ cliCmd # "signal"
    /\ cliCmd' = "signal"
    /\ cliPc' = "stop_warp"
    /\ svcCalls' = <<>>
    /\ opResult' = "none"
    /\ message' = "none"
    /\ exitCode' = NoExit

\* One collaborator call of start_services / stop_services and what
\* follows its return: the command's report, or sys.exit(0) of the signal
\* handler (cleanup ignores what stop_services returned).
ServiceStep ==
    /\ cliPc \in DOMAIN ServiceSteps
    /\ \E o \in ServiceAnswers(binding, cliPc) :
         LET goto == IF cliCmd = "start"
                     THEN SetupGoto(cliPc, o, FALSE, FALSE)
                     ELSE StopGoto(cliPc, o)
             result == IF goto = "ok" THEN "True" ELSE "False"
         IN  /\ svcCalls' = Append(svcCalls, [pc |-> cliPc, o |-> o])
             /\ IF goto \in {"ok", "fail"}
                THEN /\ cliPc' = "exited"
                     /\ opResult' = result
                     /\ message' = IF cliCmd = "signal" THEN "none"
                                   ELSE CliReport(result).message
                     /\ exitCode' = IF cliCmd = "signal" THEN 0
                                    ELSE CliReport(result).exit
                ELSE /\ cliPc' = goto
                     /\ UNCHANGED <<opResult, message, exitCode>>
    /\ UNCHANGED cliCmd

CliIdle ==
    /\ cliCmd = "none"
    /\ cliPc = "idle"
    /\ svcCalls = <<>>
    /\ opResult = "none"
    /\ message = "none"
    /\ exitCode = NoExit

\* -------------------------------------------------------------------------
\* PlatformUtils.check_root_access
\* -------------------------------------------------------------------------

MaxUid == 3

\* platform.system().lower() on the platforms Python reports
Systems == {"linux", "windows", "darwin", "freebsd", "java"}

\* ctypes.windll.shell32.IsUserAnAdmin(): a number, or an exception (no
\* windll attribute, the call failing)
AdminQueryAnswers == {"zero", "nonzero", "raise"}

\* CheckRootAccessResult without the try / except around the admin query.
CheckRootAccessResultMutant(sys, uid, query) ==
    IF sys = "linux" THEN (IF uid = 0 THEN "True" ELSE "False")
    ELSE IF sys = "windows"
         THEN (IF query = "raise" THEN "raise"
               ELSE IF query = "nonzero" THEN "True" ELSE "False")
         ELSE "False"

\* What check_root_access does on system sys with effective uid `uid` and
\* the admin query answering `query`: "True", "False" or "raise".
CheckRootAccessResult(sys, uid, query) ==
    IF sys = "linux" THEN (IF uid = 0 THEN "True" ELSE "False")
    ELSE IF sys = "windows"
         THEN (IF query = "raise" THEN "False"
               ELSE IF query = "nonzero" THEN "True" ELSE "False")
         ELSE "False"

\* One check_root_access call.
CheckRootAccess ==
    /\ rootResult = "none"
    /\ rootResult' = CheckRootAccessResult(system, euid, adminQuery)
    /\ UNCHANGED <<system, euid, adminQuery>>

RootIdle ==
    /\ system = "linux"
    /\ euid = 0
    /\ adminQuery = "raise"
    /\ rootResult = "none"

\* -------------------------------------------------------------------------
\* SecurityManager
\* -------------------------------------------------------------------------

DefaultMaxAgeDays == 30
CertValidityDays == 365
MaxStartups == 2
MaxJumps == 2

\* A file that does not exist has no mtime; no key is key number 0.
Absent == -1
NoKey == 0

\* The certificate files in the order _generate_certificates writes them.
CertWriteOrder == <<"private_key", "public_key", "certificate">>
CertFileNames == {"private_key", "public_key", "certificate"}

\* Where the writing of the certificate files can raise: nowhere, or at the
\* open of one of the files (the files before it are already written).
GenFailures == {"none", "private_key", "public_key", "certificate"}

IndexOf(name) == CHOOSE i \in 1..Len(CertWriteOrder) : CertWriteOrder[i] = name

\* _validate_certificates without the validity-period test.
ValidateCertificatesMutant(not_before, now) == TRUE

\* _validate_certificates on a certificate issued on day not_before: the
\* certificate is valid from that day for CertValidityDays days.
ValidateCertificates(not_before, now) ==
    ~(now < not_before \/ now > not_before + CertValidityDays)

\* _load_or_generate_certificates: whether the stored files are kept.
CertsKept(cf, now) ==
    /\ \A f \in CertFileNames : cf[f] # Absent
    /\ ValidateCertificates(cf["certificate"], now)

\* The certificate files after _generate_certificates ran on day now and
\* raised at failAt.
CertsAfterGenerate(cf, failAt, now) ==
    [f \in CertFileNames |->
        IF failAt = "none" \/ IndexOf(f) < IndexOf(failAt) THEN now
        ELSE cf[f]]

CertsWritten(failAt) ==
    {f \in CertFileNames : failAt = "none" \/ IndexOf(f) < IndexOf(failAt)}

\* cleanup_old_files: a file is deleted when its age in whole days exceeds
\* max_age_days.
TooOld(mtime, now, max_age_days) ==
    mtime # Absent /\ now - mtime > max_age_days

\* SecurityManager(): _load_or_generate_encryption_key, then
\* _load_or_generate_certificates.  A key is generated when the key file
\* is missing or cannot be read; saving it can fail, which is only logged.
SecurityStartup ==
    /\ startups < MaxStartups
    /\ startups' = startups + 1
    /\ secOp' = "startup"
    /\ decryptResult' = "none"
    /\ \E read \in {"ok", "fail"}, write \in {"ok", "fail"} :
         IF key_file.mtime # Absent /\ read = "ok"
         THEN /\ encryption_key' = key_file.key
              /\ keyGenerated' = FALSE
              /\ UNCHANGED <<key_file, firstPersisted>>
         ELSE /\ encryption_key' = startups + 1
              /\ keyGenerated' = TRUE
              /\ IF write = "ok"
                 THEN /\ key_file' = [key |-> startups + 1, mtime |-> secClock]
                      /\ firstPersisted' = IF firstPersisted = NoKey
                                           THEN startups + 1
                                           ELSE firstPersisted
                 ELSE UNCHANGED <<key_file, firstPersisted>>
    /\ IF CertsKept(cert_files, secClock)
       THEN /\ certWritten' = {}
            /\ genError' = FALSE
            /\ UNCHANGED cert_files
       ELSE \E failAt \in GenFailures :
              /\ cert_files' = CertsAfterGenerate(cert_files, failAt, secClock)
              /\ certWritten' = CertsWritten(failAt)
              /\ genError' = (failAt # "none")
    /\ UNCHANGED <<secClock, jumps, cipherKey, configValue>>

\* encrypt_data of the session: the ciphertext is bound to the session key.
EncryptData ==
    /\ encryption_key # NoKey
    /\ cipherKey = NoKey
    /\ cipherKey' = encryption_key
    /\ secOp' = "encrypt"
    /\ decryptResult' = "none"
    /\ UNCHANGED <<secClock, jumps, startups, key_file, encryption_key,
                   keyGenerated, firstPersisted, cert_files, certWritten,
                   genError, configValue>>

\* decrypt_data of a ciphertext made earlier: AES-GCM rejects it (the call
\* raises) when the session key is not the key it was made with.
DecryptData ==
    /\ encryption_key # NoKey
    /\ cipherKey # NoKey
    /\ decryptResult' = IF cipherKey = encryption_key THEN "ok" ELSE "raise"
    /\ secOp' = "decrypt"
    /\ UNCHANGED <<secClock, jumps, startups, key_file, encryption_key,
                   keyGenerated, firstPersisted, cert_files, certWritten,
                   genError, cipherKey, configValue>>

\* secure_config_file: a plain sensitive value is replaced by
\* 'encrypted:' + its ciphertext; an encrypted one is left alone.
SecureConfigFile ==
    /\ encryption_key # NoKey
    /\ configValue' = IF configValue = NoKey THEN encryption_key
                      ELSE configValue
    /\ secOp' = "secure_config"
    /\ decryptResult' = "none"
    /\ UNCHANGED <<secClock, jumps, startups, key_file, encryption_key,
                   keyGenerated, firstPersisted, cert_files, certWritten,
                   genError, cipherKey>>

\* cleanup_old_files(max_age_days): every file of config_dir, the key
\* file and the certificate files included, is judged by its mtime.
CleanupOldFiles ==
    /\ encryption_key # NoKey
    /\ \E max_age_days \in {DefaultMaxAgeDays} :
         /\ key_file' =
              IF TooOld(key_file.mtime, secClock, max_age_days)
              THEN [key |-> NoKey, mtime |-> Absent]
              ELSE key_file
         /\ cert_files' =
              [f \in CertFileNames |->
                 IF TooOld(cert_files[f], secClock, max_age_days)
                 THEN Absent ELSE cert_files[f]]
    /\ secOp' = "cleanup"
    /\ decryptResult' = "none"
    /\ UNCHANGED <<secClock, jumps, startups, encryption_key, keyGenerated,
                   firstPersisted, certWritten, genError, cipherKey,
                   configValue>>

\* Time passes between operations, or the system clock is set back.
ClockJump ==
    /\ jumps < MaxJumps
    /\ jumps' = jumps + 1
    /\ \E d \in {DefaultMaxAgeDays + 1, CertValidityDays + 1,
                 0 - (DefaultMaxAgeDays + 1)} :
         /\ secClock + d >= 0
         /\ secClock' = secClock + d
    /\ UNCHANGED <<startups, secOp, key_file, encryption_key, keyGenerated,
                   firstPersisted, cert_files, certWritten, genError,
                   cipherKey, configValue, decryptResult>>

SecurityIdle ==
    /\ secClock = 0
    /\ jumps = 0
    /\ startups = 0
    /\ secOp = "none"
    /\ key_file = [key |-> NoKey, mtime |-> Absent]
    /\ encryption_key = NoKey
    /\ keyGenerated = FALSE
    /\ firstPersisted = NoKey
    /\ cert_files = [f \in CertFileNames |-> Absent]
    /\ certWritten = {}
    /\ genError = FALSE
    /\ cipherKey = NoKey
    /\ configValue = NoKey
    /\ decryptResult = "none"

\* -------------------------------------------------------------------------
\* ErrorHandler
\* -------------------------------------------------------------------------

MaxCallbacks == 2

\* type(error).__name__ of the exceptions handled; the subprocess
\* exceptions are named without their module.
ErrorTypes ==
    {"FileNotFoundError", "PermissionError", "ConnectionError",
     "TimeoutError", "CalledProcessError", "ValueError"}

\* str(error)
ErrorTexts == {<<"No such file">>, <<"Test error">>}

\* The context strings, as sequences of text pieces.
ErrorContexts ==
    {<<>>, <<"wgcf">>, <<"wgcf", " install">>, <<"nextdns">>,
     <<"test_context">>}

\* The contexts a recovery strategy is registered for.
StrategyContexts == {<<"wgcf">>, <<"test_context">>}

\* What a registered callback does when called: it returns, or it raises
\* an Exception.
CallbackKinds == {"return", "raise"}

\* What a registered strategy does when called: it returns a dict with
\* success True or False and a message, raises an Exception, returns a
\* dict with success True and no message, or returns an empty dict.
StrategyKinds == {"success", "failure", "raise", "no_message", "empty"}

DefaultText == <<"Required file or directory not found">>

\* error_messages of _get_user_friendly_message
ErrorMessages ==
    ("FileNotFoundError" :>
        ((<<"default">> :> DefaultText)
         @@ (<<"wgcf">> :> <<"wgcf tool not found. Please install it first.">>)
         @@ (<<"wireguard">> :> <<"WireGuard configuration not found">>)
         @@ (<<"nextdns">> :> <<"NextDNS configuration not found">>)))
    @@ ("PermissionError" :>
        ((<<"default">> :>
            <<"Permission denied. Try running with administrator privileges.">>)
         @@ (<<"wireguard">> :>
            <<"Permission denied accessing WireGuard. Run with sudo.">>)
         @@ (<<"nextdns">> :>
            <<"Permission denied accessing NextDNS configuration.">>)))
    @@ ("ConnectionError" :>
        ((<<"default">> :>
            <<"Network connection failed. Check your internet connection.">>)
         @@ (<<"warp">> :> <<"Failed to connect to Cloudflare WARP servers.">>)
         @@ (<<"nextdns">> :> <<"Failed to connect to NextDNS servers.">>)))
    @@ ("TimeoutError" :>
        ((<<"default">> :> <<"Operation timed out. Please try again.">>)
         @@ (<<"warp">> :> <<"WARP connection timed out.">>)
         @@ (<<"nextdns">> :> <<"NextDNS connection timed out.">>)))
    @@ ("subprocess.TimeoutExpired" :>
        ((<<"default">> :> <<"Command execution timed out.">>)
         @@ (<<"wgcf">> :> <<"wgcf command timed out.">>)
         @@ (<<"wireguard">> :> <<"WireGuard command timed out.">>)))
    @@ ("subprocess.CalledProcessError" :>
        ((<<"default">> :> <<"Command execution failed.">>)
         @@ (<<"wgcf">> :> <<"wgcf command failed.">>)
         @@ (<<"wireguard">> :> <<"WireGuard command failed.">>)
         @@ (<<"nextdns">> :> <<"NextDNS command failed.">>)))

\* _get_user_friendly_message
UserFriendlyMessage(error_type, text, context) ==
    IF error_type \in DOMAIN ErrorMessages
    THEN IF context \in DOMAIN ErrorMessages[error_type]
         THEN ErrorMessages[error_type][context]
         ELSE ErrorMessages[error_type][<<"default">>]
    ELSE <<"An unexpected error occurred: ">> \o text

GeneralSuggestions ==
    <<"Check the logs for more detailed information",
      "Restart the application",
      "Contact support if the issue persists">>

\* _get_recovery_suggestions
RecoverySuggestions(error_type, context) ==
    (CASE error_type = "FileNotFoundError" ->
            (IF Contains(context, <<"wgcf">>)
             THEN <<"Install wgcf using the 'Install wgcf' button",
                    "Download wgcf manually from https://github.com/ViRb3/wgcf/releases",
                    "Ensure wgcf is in your system PATH">>
             ELSE IF Contains(context, <<"wireguard">>)
             THEN <<"Run WireGuard setup using the 'Setup Config' button",
                    "Check if WireGuard is properly installed",
                    "Verify configuration file permissions">>
             ELSE IF Contains(context, <<"nextdns">>)
             THEN <<"Install NextDNS CLI using your package manager",
                    "Configure NextDNS with your profile ID",
                    "Check NextDNS configuration file">>
             ELSE <<>>)
       [] error_type = "PermissionError" ->
            <<"Run the application with administrator privileges",
              "Check file and directory permissions",
              "Use sudo for Linux operations">>
       [] error_type = "ConnectionError" ->
            <<"Check your internet connection",
              "Verify firewall settings",
              "Try using a different network",
              "Check if Cloudflare/NextDNS services are accessible">>
       [] error_type = "TimeoutError" ->
            <<"Check your internet connection speed",
              "Try again in a few moments",
              "Check if the service is experiencing issues">>
       [] OTHER -> <<>>)
    \o GeneralSuggestions

\* _get_error_severity
ErrorSeverity(error_type) ==
    IF error_type \in {"KeyboardInterrupt", "SystemExit"} THEN "critical"
    ELSE IF error_type \in {"PermissionError", "ConnectionError", "TimeoutError"}
    THEN "high"
    ELSE IF error_type \in {"FileNotFoundError", "subprocess.CalledProcessError"}
    THEN "medium"
    ELSE "low"

NoResult == <<>>
NoError == <<>>

\* What a strategy of the given kind returns.
StrategyResult(kind) ==
    CASE kind = "success" -> [success |-> TRUE, message |-> "Recovered"]
      [] kind = "failure" -> [success |-> FALSE, message |-> "Not recovered"]
      [] kind = "no_message" -> [success |-> TRUE]
      [] OTHER -> <<>>

\* _recover_file_not_found, _recover_permission_error,
\* _recover_connection_error and the final return of _attempt_recovery;
\* probe: what the one probe the recovery makes answers (one of the common
\* wgcf paths exists, the connectivity request answers 200).
BuiltinRecovery(error_type, context, probe) ==
    CASE error_type = "FileNotFoundError" ->
           (IF Contains(context, <<"wgcf">>) /\ probe
            THEN [success |-> TRUE, message |-> "Found wgcf at path",
                  path |-> "path"]
            ELSE [success |-> FALSE,
                  message |-> "File not found, manual intervention required"])
      [] error_type = "PermissionError" ->
           [success |-> FALSE,
            message |-> "Permission error requires manual intervention"]
      [] error_type = "ConnectionError" ->
           (IF probe
            THEN [success |-> TRUE, message |-> "Internet connectivity restored"]
            ELSE [success |-> FALSE,
                  message |-> "Connection error, check network settings"])
      [] OTHER ->
           [success |-> FALSE, message |-> "No automatic recovery available"]

\* AttemptRecovery with the built-in recoveries consulted first, the
\* registered strategy only for the exception types without one.
AttemptRecoveryMutant(strategies, error_type, context, probe) ==
    IF error_type \in {"FileNotFoundError", "PermissionError", "ConnectionError"}
    THEN BuiltinRecovery(error_type, context, probe)
    ELSE IF context \in DOMAIN strategies /\ strategies[context] # "raise"
    THEN StrategyResult(strategies[context])
    ELSE BuiltinRecovery(error_type, context, probe)

\* _attempt_recovery: the strategy registered for exactly this context is
\* called first and what it returns is returned as it is; when it raises,
\* the built-in recoveries follow.
AttemptRecovery(strategies, error_type, context, probe) ==
    IF context \in DOMAIN strategies /\ strategies[context] # "raise"
    THEN StrategyResult(strategies[context])
    ELSE BuiltinRecovery(error_type, context, probe)

\* The exception the subscripts recovery_result['success'] and
\* recovery_result['message'] of handle_error raise on this result.
SubscriptError(result) ==
    IF "success" \notin DOMAIN result THEN "KeyError"
    ELSE IF result.success /\ "message" \notin DOMAIN result THEN "KeyError"
    ELSE "none"

\* The callback loop of handle_error: every callback is called in list
\* order inside its own try / except Exception.
InvokedCallbacks(callbacks) == [i \in 1..Len(callbacks) |-> i]

\* error_info as handle_error returns it.
ErrorInfo(error_type, text, context, result) ==
    LET info == [timestamp |-> "isoformat",
                 error_type |-> error_type,
                 error_message |-> text,
                 context |-> context,
                 traceback |-> "format_exc",
                 user_friendly_message |->
                     UserFriendlyMessage(error_type, text, context),
                 recovery_suggestions |->
                     RecoverySuggestions(error_type, context),
                 severity |-> ErrorSeverity(error_type),
                 handled |-> FALSE]
    IN  IF result.success
        THEN [handled |-> TRUE, recovery_message |-> result.message] @@ info
        ELSE info

\* One handle_error(error, context) call.
HandleError ==
    \E error_type \in ErrorTypes, text \in ErrorTexts,
       context \in ErrorContexts, probe \in BOOLEAN :
        LET result == AttemptRecovery(recovery_strategies, error_type,
                                      context, probe)
        IN  /\ lastError' = [error_type |-> error_type, text |-> text,
                             context |-> context]
            /\ recovery' = result
            /\ errorRaised' = SubscriptError(result)
            /\ IF SubscriptError(result) # "none"
               THEN /\ errorResult' = NoResult
                    /\ invoked' = <<>>
               ELSE /\ errorResult' = ErrorInfo(error_type, text, context, result)
                    /\ invoked' = InvokedCallbacks(error_callbacks)
            /\ UNCHANGED <<error_callbacks, recovery_strategies>>

\* add_error_callback
AddErrorCallback ==
    /\ Len(error_callbacks) < MaxCallbacks
    /\ \E kind \in CallbackKinds :
         error_callbacks' = Append(error_callbacks, kind)
    /\ lastError' = NoError
    /\ recovery' = <<>>
    /\ errorRaised' = "none"
    /\ errorResult' = NoResult
    /\ invoked' = <<>>
    /\ UNCHANGED recovery_strategies

\* add_recovery_strategy
AddRecoveryStrategy ==
    /\ \E context \in StrategyContexts, kind \in StrategyKinds :
         recovery_strategies' = (context :> kind) @@ recovery_strategies
    /\ lastError' = NoError
    /\ recovery' = <<>>
    /\ errorRaised' = "none"
    /\ errorResult' = NoResult
    /\ invoked' = <<>>
    /\ UNCHANGED error_callbacks

ErrorIdle ==
    /\ error_callbacks = <<>>
    /\ recovery_strategies = <<>>
    /\ lastError = NoError
    /\ recovery = <<>>
    /\ errorRaised = "none"
    /\ errorResult = NoResult
    /\ invoked = <<>>

\* -------------------------------------------------------------------------
\* NavigationManager
\* -------------------------------------------------------------------------

MaxPushes == 3
MaxOptions == 2

\* The menu names pushed by callers.
MenuNames == {"settings", "test_menu"}

\* Python's None as a return value, and the value of navResult before any
\* call returned.
NoneValue == "<None>"
NoCall == "<no call>"

\* What show_menu returns: "back", "exit" or the number of an entry.
Choice(kind) == [kind |-> kind, n |-> 0]

\* PushMenu with the new menu put on the stack instead of the current one.
PushMenuMutant(stack, current, menu_name) ==
    [stack |-> Append(stack, menu_name), current |-> menu_name]

\* push_menu: the current menu goes on the stack, menu_name becomes current.
PushMenu(stack, current, menu_name) ==
    [stack |-> Append(stack, current), current |-> menu_name]

\* pop_menu on a non-empty stack (a stack is falsy only when it is empty).
PopMenu(stack) ==
    [stack |-> SubSeq(stack, 1, Len(stack) - 1),
     current |-> stack[Len(stack)],
     result |-> stack[Len(stack)]]

\* A push_menu(menu_name) call outside the menu loop.
PushMenuCall ==
    /\ loopPc \in {"idle", "left"}
    /\ Len(menu_history) < MaxPushes
    /\ \E menu_name \in MenuNames :
         LET after == PushMenu(menu_stack, current_menu, menu_name)
         IN  /\ menu_stack' = after.stack
             /\ current_menu' = after.current
             /\ menu_history' = Append(menu_history, menu_name)
             /\ frames' = Append(frames, [menu |-> menu_name,
                                          before |-> current_menu])
    /\ navOp' = "push"
    /\ navResult' = NoCall
    /\ UNCHANGED <<navAuto, loopPc, nOptions, optionsOk, choice>>

\* A pop_menu() call outside the menu loop.
PopMenuCall ==
    /\ loopPc \in {"idle", "left"}
    /\ IF menu_stack # <<>>
       THEN /\ menu_stack' = PopMenu(menu_stack).stack
            /\ current_menu' = PopMenu(menu_stack).current
            /\ navResult' = PopMenu(menu_stack).result
            /\ frames' = SubSeq(frames, 1, Len(frames) - 1)
       ELSE /\ navResult' = NoneValue
            /\ UNCHANGED <<menu_stack, current_menu, frames>>
    /\ navOp' = "pop"
    /\ UNCHANGED <<menu_history, navAuto, loopPc, nOptions, optionsOk, choice>>

\* A get_current_menu() call.
GetCurrentMenu ==
    /\ loopPc \in {"idle", "left"}
    /\ navOp' = "get"
    /\ navResult' = current_menu
    /\ UNCHANGED <<menu_stack, current_menu, menu_history, frames, navAuto,
                   loopPc, nOptions, optionsOk, choice>>

\* run_menu_loop(title, options) is entered; optionsOk: every option has
\* a 'label'.
RunMenuLoop ==
    /\ loopPc \in {"idle", "left"}
    /\ loopPc' = "show"
    /\ nOptions' \in 0..MaxOptions
    /\ optionsOk' \in BOOLEAN
    /\ choice' = Choice("none")
    /\ navOp' = "loop"
    /\ navResult' = NoCall
    /\ UNCHANGED <<menu_stack, current_menu, menu_history, frames, navAuto>>

\* What display_menu returns for the entry number picked among n options.
MenuChoice(picked, n, stack) ==
    IF picked = n + 1 /\ stack # <<>> THEN Choice("back")
    ELSE IF picked = n + 2 THEN Choice("exit")
    ELSE [kind |-> "number", n |-> picked]

\* show_menu in auto mode: display_menu picks "1" without asking; printing
\* an option without a label raises, which display_menu turns into "exit".
ShowMenuAuto ==
    /\ loopPc = "show"
    /\ navAuto
    /\ choice' = IF nOptions > 0 /\ ~optionsOk THEN Choice("exit")
                 ELSE MenuChoice(1, nOptions, menu_stack)
    /\ loopPc' = "execute"
    /\ UNCHANGED <<menu_stack, current_menu, menu_history, frames, navOp,
                   navResult, navAuto, nOptions, optionsOk>>

\* show_menu in interactive mode, the user picking an entry other than
\* Exit among the choices Prompt.ask accepts.
ShowMenuOther ==
    /\ loopPc = "show"
    /\ ~navAuto
    /\ nOptions = 0 \/ optionsOk
    /\ \E picked \in 1..(nOptions + 1) :
         choice' = MenuChoice(picked, nOptions, menu_stack)
    /\ loopPc' = "execute"
    /\ UNCHANGED <<menu_stack, current_menu, menu_history, frames, navOp,
                   navResult, navAuto, nOptions, optionsOk>>

\* show_menu in interactive mode, the user picking Exit or interrupting
\* the prompt (or the printing of the options raising).
ShowMenuExit ==
    /\ loopPc = "show"
    /\ ~navAuto
    /\ choice' = Choice("exit")
    /\ loopPc' = "execute"
    /\ UNCHANGED <<menu_stack, current_menu, menu_history, frames, navOp,
                   navResult, navAuto, nOptions, optionsOk>>

\* execute_menu_option and the loop test of run_menu_loop; the action of
\* the chosen option returns or raises.
ExecuteMenuOption ==
    /\ loopPc = "execute"
    /\ \E outcome \in {"return", "raise"} :
         LET continue ==
               CASE choice.kind = "back" -> TRUE
                 [] choice.kind = "exit" -> FALSE
                 [] OTHER -> ~(choice.n <= nOptions /\ outcome = "raise")
         IN  loopPc' = IF continue THEN "show" ELSE "left"
    /\ IF choice.kind = "back" /\ menu_stack # <<>>
       THEN /\ menu_stack' = PopMenu(menu_stack).stack
            /\ current_menu' = PopMenu(menu_stack).current
            /\ frames' = SubSeq(frames, 1, Len(frames) - 1)
       ELSE UNCHANGED <<menu_stack, current_menu, frames>>
    /\ UNCHANGED <<menu_history, navOp, navResult, navAuto, nOptions,
                   optionsOk, choice>>

NavIdle ==
    /\ menu_stack = <<>>
    /\ current_menu = "main"
    /\ menu_history = <<>>
    /\ frames = <<>>
    /\ navOp = "none"
    /\ navResult = NoCall
    /\ navAuto = FALSE
    /\ loopPc = "idle"
    /\ nOptions = 0
    /\ optionsOk = TRUE
    /\ choice = Choice("none")

\* -------------------------------------------------------------------------
\* NetworkMonitor
\* -------------------------------------------------------------------------

MaxHistory == 2
MaxThreads == 2
MaxSamples == 3

\* The threads start_monitoring can create, in creation order.
Threads == 1..MaxThreads

\* monitor_thread before the first start_monitoring (None).
NoThread == 0

\* The sample a thread holds between get_current_metrics and append: none.
NoSample == 0

\* The thread the next threading.Thread(...) call creates.
NewThread == CHOOSE t \in Threads : threadPc[t] = "unborn" /\
                 \A u \in Threads : threadPc[u] = "unborn" => t <= u

\* deque(maxlen=...).append: a full deque discards the element at its left
\* end.
DequeAppend(history, maxlen, metrics) ==
    IF maxlen = 0 THEN <<>>
    ELSE IF Len(history) < maxlen THEN Append(history, metrics)
    ELSE Append(Tail(history), metrics)

\* start_monitoring: returns at once while is_monitoring is set, otherwise
\* sets it and starts a new _monitor_loop thread.
StartMonitoring ==
    /\ monPc = "idle"
    /\ IF is_monitoring
       THEN /\ monOp' = "start_ignored"
            /\ UNCHANGED <<is_monitoring, monitor_thread, threadPc>>
       ELSE /\ \E t \in Threads : threadPc[t] = "unborn"
            /\ is_monitoring' = TRUE
            /\ monitor_thread' = NewThread
            /\ threadPc' = [threadPc EXCEPT ![NewThread] = "test"]
            /\ monOp' = "start"
    /\ UNCHANGED <<history_size, metrics_history, pending, sampled, appended,
                   monPc>>

\* stop_monitoring up to its join: clears is_monitoring and waits for
\* monitor_thread, if there is one.
StopMonitoring ==
    /\ monPc = "idle"
    /\ is_monitoring' = FALSE
    /\ monPc' = IF monitor_thread # NoThread THEN "joining" ELSE "idle"
    /\ monOp' = "stop"
    /\ UNCHANGED <<history_size, metrics_history, monitor_thread, threadPc,
                   pending, sampled, appended>>

\* join(timeout=5) returns: the thread has ended, or five seconds passed
\* while it was still measuring or sleeping its interval (30 seconds by
\* default).
JoinReturns ==
    /\ monPc = "joining"
    /\ threadPc[monitor_thread] \in {"dead", "sample", "sleep"}
    /\ monPc' = "idle"
    /\ UNCHANGED <<history_size, metrics_history, is_monitoring,
                   monitor_thread, threadPc, pending, sampled, appended,
                   monOp>>

\* _monitor_loop: the test of the while loop.
LoopTest(t) ==
    /\ threadPc[t] = "test"
    /\ threadPc' = [threadPc EXCEPT
                      ![t] = IF is_monitoring THEN "sample" ELSE "dead"]
    /\ UNCHANGED <<history_size, metrics_history, is_monitoring,
                   monitor_thread, pending, sampled, appended, monPc, monOp>>

\* _monitor_loop: get_current_metrics returns the next sample, or raises
\* and the loop goes to sleep in its except branch.
Sample(t) ==
    /\ threadPc[t] = "sample"
    /\ sampled < MaxSamples
    /\ \/ /\ sampled' = sampled + 1
          /\ pending' = [pending EXCEPT ![t] = sampled + 1]
          /\ threadPc' = [threadPc EXCEPT ![t] = "append"]
       \/ /\ threadPc' = [threadPc EXCEPT ![t] = "sleep"]
          /\ UNCHANGED <<sampled, pending>>
    /\ UNCHANGED <<history_size, metrics_history, is_monitoring,
                   monitor_thread, appended, monPc, monOp>>

\* _monitor_loop: metrics_history.append(metrics), then time.sleep.
AppendSample(t) ==
    /\ threadPc[t] = "append"
    /\ metrics_history' = DequeAppend(metrics_history, history_size, pending[t])
    /\ appended' = appended \cup {pending[t]}
    /\ pending' = [pending EXCEPT ![t] = NoSample]
    /\ threadPc' = [threadPc EXCEPT ![t] = "sleep"]
    /\ UNCHANGED <<history_size, is_monitoring, monitor_thread, sampled,
                   monPc, monOp>>

\* _monitor_loop: time.sleep(interval) returns.
Wake(t) ==
    /\ threadPc[t] = "sleep"
    /\ threadPc' = [threadPc EXCEPT ![t] = "test"]
    /\ UNCHANGED <<history_size, metrics_history, is_monitoring,
                   monitor_thread, pending, sampled, appended, monPc, monOp>>

MonitorIdle ==
    /\ history_size = 1
    /\ metrics_history = <<>>
    /\ is_monitoring = FALSE
    /\ monitor_thread = NoThread
    /\ threadPc = [t \in Threads |-> "unborn"]
    /\ pending = [t \in Threads |-> NoSample]
    /\ sampled = 0
    /\ appended = {}
    /\ monPc = "idle"
    /\ monOp = "none"

\* -------------------------------------------------------------------------
\* scripts/push-without-workflows.py
\* -------------------------------------------------------------------------

MaxAhead == 3

\* A commit: the one origin has, a commit to push (numbered), or one of the
\* two commits the script makes.
Commit(kind, n) == [kind |-> kind, n |-> n]

\* The local branch before the run: the commit origin has, then the
\* commits to push.
BranchAhead(ahead) ==
    [i \in 1..(1 + ahead) |->
        IF i = 1 THEN Commit("origin", 0) ELSE Commit("work", i - 1)]

\* The exit status of the script before it ended.
Running == -1

\* Whether a git commit of the staged changes can succeed: there is
\* something to commit only when the moved files are tracked, and the
\* commit itself (hooks, signing, identity) may still fail.
CommitAnswers(isTracked) == IF isTracked THEN BOOLEAN ELSE {FALSE}

\* git reset --hard HEAD~1: the branch without its last commit.
ResetHardParent(b) == SubSeq(b, 1, Len(b) - 1)

\* main up to the stash: the current branch is found, the status is clean
\* and the branch is ahead of origin, or the script returns.
Preflight ==
    /\ scriptPc = "start"
    /\ \E branchOk \in BOOLEAN, clean \in BOOLEAN :
         IF ~branchOk \/ ~clean
         THEN scriptPc' = "done" /\ exitStatus' = 1
         ELSE IF Len(branch) = 1
         THEN scriptPc' = "done" /\ exitStatus' = 0
         ELSE scriptPc' = "stash" /\ exitStatus' = Running
    /\ UNCHANGED <<branch, branchBefore, workflowFiles, tracked, backupFiles,
                   has_workflows, pushResult>>

\* stash_workflow_files: the workflow files are copied to the backup
\* directory and removed from .github/workflows.
StashWorkflowFiles ==
    /\ scriptPc = "stash"
    /\ has_workflows' = workflowFiles
    /\ backupFiles' = workflowFiles
    /\ workflowFiles' = FALSE
    /\ scriptPc' = IF workflowFiles THEN "commit" ELSE "push"
    /\ UNCHANGED <<branch, branchBefore, tracked, pushResult, exitStatus>>

\* git add -A and git commit -m "temp: remove workflows for push"; the
\* result of the commit is only reported.
TempCommit ==
    /\ scriptPc = "commit"
    /\ \E success \in CommitAnswers(tracked) :
         branch' = IF success THEN Append(branch, Commit("temp", 0)) ELSE branch
    /\ scriptPc' = "push"
    /\ UNCHANGED <<branchBefore, workflowFiles, tracked, backupFiles,
                   has_workflows, pushResult, exitStatus>>

\* git push origin <branch>
Push ==
    /\ scriptPc = "push"
    /\ \E success \in BOOLEAN :
         /\ pushResult' = IF success THEN "ok" ELSE "failed"
         /\ scriptPc' = IF success THEN "pushed" ELSE "push_failed"
    /\ UNCHANGED <<branch, branchBefore, workflowFiles, tracked, backupFiles,
                   has_workflows, exitStatus>>

\* The push failed: with workflows stashed, git reset --hard HEAD~1 and
\* restore_workflow_files; return 1.
RestoreAfterFailure ==
    /\ scriptPc = "push_failed"
    /\ IF has_workflows
       THEN /\ branch' = ResetHardParent(branch)
            /\ workflowFiles' = TRUE
            /\ backupFiles' = FALSE
       ELSE UNCHANGED <<branch, workflowFiles, backupFiles>>
    /\ scriptPc' = "done"
    /\ exitStatus' = 1
    /\ UNCHANGED <<branchBefore, tracked, has_workflows, pushResult>>

\* The push succeeded: with workflows stashed, restore_workflow_files,
\* git add .github/workflows/ and git commit; return 0.
RestoreAfterSuccess ==
    /\ scriptPc = "pushed"
    /\ IF has_workflows
       THEN /\ workflowFiles' = TRUE
            /\ backupFiles' = FALSE
            /\ \E success \in CommitAnswers(tracked) :
                 branch' = IF success THEN Append(branch, Commit("restore", 0))
                           ELSE branch
       ELSE UNCHANGED <<branch, workflowFiles, backupFiles>>
    /\ scriptPc' = "done"
    /\ exitStatus' = 0
    /\ UNCHANGED <<branchBefore, tracked, has_workflows, pushResult>>

ScriptIdle ==
    /\ scriptPc = "start"
    /\ branch = BranchAhead(0)
    /\ branchBefore = BranchAhead(0)
    /\ workflowFiles = FALSE
    /\ tracked = FALSE
    /\ backupFiles = FALSE
    /\ has_workflows = FALSE
    /\ pushResult = "none"
    /\ exitStatus = Running

\* -------------------------------------------------------------------------
\* Specifications
\* -------------------------------------------------------------------------

ExtraIdle == NavIdle /\ MonitorIdle /\ ScriptIdle

laterVars == <<cliVars, rootVars, secVars, errVars, extraVars>>

LaterIdle == CliIdle /\ RootIdle /\ SecurityIdle /\ ErrorIdle /\ ExtraIdle

vars ==
    <<binding, statusVars, patchVars, retryVars, setupVars, backupVars,
      laterVars>>

InitSetup ==
    /\ binding \in Bindings
    /\ StatusIdle
    /\ PatchIdle
    /\ RetryIdle
    /\ auto_mode \in BOOLEAN
    /\ is_elevated = FALSE
    /\ setupPc = "idle"
    /\ wgcfOk = FALSE
    /\ calls = <<>>
    /\ effects = {}
    /\ setupResult = "none"
    /\ runs = 0
    /\ BackupIdle
    /\ LaterIdle

NextSetup ==
    \/ QuickSetup /\ UNCHANGED <<backupVars, laterVars>>
    \/ EnsureElevation /\ UNCHANGED <<backupVars, laterVars>>
    \/ InstallDependencies /\ UNCHANGED <<backupVars, laterVars>>
    \/ SetupWgcf /\ UNCHANGED <<backupVars, laterVars>>
    \/ SetupNextDNSConfig /\ UNCHANGED <<backupVars, laterVars>>
    \/ CreateSystemdServices /\ UNCHANGED <<backupVars, laterVars>>
    \/ StartServices /\ UNCHANGED <<backupVars, laterVars>>

SpecSetup == InitSetup /\ [][NextSetup]_vars

InitBackup ==
    /\ binding = "repo"
    /\ StatusIdle
    /\ PatchIdle
    /\ RetryIdle
    /\ SetupIdle
    /\ os_name \in {"posix", "nt"}
    /\ clock = 0
    /\ backup_config \in Configs
    /\ present \in SUBSET SourceFiles
    /\ archives = <<>>
    /\ created = 0
    /\ lastOp = "none"
    /\ lastCreate = NoCreate
    /\ lastDeleted = {}
    /\ lastRestore = NoRestore
    /\ restoreLocation = {}
    /\ tempLeft = FALSE
    /\ lastVerify = NoVerify
    /\ LaterIdle

notBackupVars ==
    <<binding, statusVars, patchVars, retryVars, setupVars, laterVars>>

NextBackup ==
    \/ Startup /\ UNCHANGED notBackupVars
    \/ Tick /\ UNCHANGED notBackupVars
    \/ CreateBackup /\ UNCHANGED notBackupVars
    \/ RestoreBackup /\ UNCHANGED notBackupVars
    \/ VerifyBackup /\ UNCHANGED notBackupVars

SpecBackup == InitBackup /\ [][NextBackup]_vars

InitStatus ==
    /\ binding \in Bindings
    /\ StatusIdle
    /\ PatchIdle
    /\ RetryIdle
    /\ auto_mode = FALSE
    /\ is_elevated \in BOOLEAN
    /\ setupPc = "idle"
    /\ wgcfOk = FALSE
    /\ calls = <<>>
    /\ effects = {}
    /\ setupResult = "none"
    /\ runs = 0
    /\ BackupIdle
    /\ LaterIdle

NextStatus ==
    GetStatus
      /\ UNCHANGED <<patchVars, retryVars, setupVars, backupVars, laterVars>>

InitPatch ==
    /\ binding = "repo"
    /\ StatusIdle
    /\ PatchIdle
    /\ RetryIdle
    /\ SetupIdle
    /\ BackupIdle
    /\ LaterIdle

NextPatch ==
    \/ GenerateProfile
         /\ UNCHANGED <<retryVars, setupVars, backupVars, laterVars>>
    \/ ModifyProfileForNextDNS
         /\ UNCHANGED <<retryVars, setupVars, backupVars, laterVars>>

InitRetry ==
    /\ binding \in Bindings
    /\ StatusIdle
    /\ PatchIdle
    /\ RetryIdle
    /\ SetupIdle
    /\ BackupIdle
    /\ LaterIdle

NextRetry ==
    \/ DownloadWithRetry /\ UNCHANGED <<backupVars, laterVars>>
    \/ DownloadAttempt /\ UNCHANGED <<backupVars, laterVars>>

SpecRetry == InitRetry /\ [][NextRetry]_vars

SpecPatch == InitPatch /\ [][NextPatch]_vars

SpecStatus == InitStatus /\ [][NextStatus]_vars

InitCli ==
    /\ binding \in Bindings
    /\ StatusIdle
    /\ PatchIdle
    /\ RetryIdle
    /\ SetupIdle
    /\ BackupIdle
    /\ CliIdle
    /\ RootIdle
    /\ SecurityIdle
    /\ ErrorIdle
    /\ ExtraIdle

notCliVars ==
    <<binding, statusVars, patchVars, retryVars, backupVars, rootVars,
      secVars, errVars, extraVars>>

NextCli ==
    \/ CliSetup /\ UNCHANGED notCliVars
    \/ CliSetupStep /\ UNCHANGED <<backupVars, rootVars, secVars, errVars, extraVars>>
    \/ CliSetupDone /\ UNCHANGED <<notCliVars, setupVars>>
    \/ CliStartStop /\ UNCHANGED <<notCliVars, setupVars>>
    \/ SignalHandler /\ UNCHANGED <<notCliVars, setupVars>>
    \/ ServiceStep /\ UNCHANGED <<notCliVars, setupVars>>

SpecCli == InitCli /\ [][NextCli]_vars

\* C1: every get_status call returns one entry per known component, whatever
\* the collaborators answer (an exception included).
CE_C1_AllComponentsAlways ==
    statusResult # NoStatus => Components \subseteq DOMAIN statusResult

\* C5: the DNS patch is idempotent: applying it to an already patched profile
\* leaves the file content unchanged.
CE_C5_PatchIdempotent ==
    [][(patchCount >= 1 /\ patchCount' = patchCount + 1)
          => profile_file' = profile_file]_vars

HasCloudflareLine(c) == Contains(c, CloudflareDNS1) \/ Contains(c, CloudflareDNS2)

\* an active (uncommented) DNS line naming a Cloudflare resolver
ActiveCloudflareLine(l) ==
    /\ StartsWith(l, <<"DNS = ">>)
    /\ \E i \in 1..Len(l) : l[i] \in {"1.1.1.1", "1.0.0.1"}

RemoveAt(s, i) == SubSeq(s, 1, i - 1) \o SubSeq(s, i + 1, Len(s))

\* C6: after the patch of a generated profile with a Cloudflare DNS line no
\* active Cloudflare DNS line remains, exactly one line is the active line
\* 'DNS = 127.0.0.1', and every other line is as generated (the Cloudflare
\* lines commented out).
CE_C6_PatchResult ==
    (patchCount = 1 /\ HasCloudflareLine(generated)) =>
        LET before == SplitLines(generated, <<>>)
            after == SplitLines(profile_file, <<>>)
        IN  /\ \A i \in 1..Len(after) : ~ActiveCloudflareLine(after[i])
            /\ Cardinality({i \in 1..Len(after) : after[i] = LocalDNS}) = 1
            /\ \E i \in 1..Len(after) :
                 /\ after[i] = LocalDNS
                 /\ RemoveAt(after, i) =
                      [j \in 1..Len(before) |->
                         IF ActiveCloudflareLine(before[j])
                         THEN Hash \o before[j] ELSE before[j]]

Failed(o) == o # "true"

\* C10: at most max_retries attempts are made, the first successful attempt
\* ends the call with True, and False is returned exactly when all
\* max_retries attempts failed (by returning False or by raising).
Thm_C10_RetryBound ==
    /\ Len(outcomes) <= max_retries
    /\ \A i \in 1..(Len(outcomes) - 1) : Failed(outcomes[i])
    /\ retryResult = "True" <=>
          (Len(outcomes) >= 1 /\ outcomes[Len(outcomes)] = "true")
    /\ retryResult = "True" => retryPc = "returned"
    /\ retryPc = "returned" =>
          (retryResult = "False" <=>
             (Len(outcomes) = max_retries
                /\ \A i \in 1..Len(outcomes) : Failed(outcomes[i])))
    /\ retryPc = "loop" => Len(outcomes) < max_retries

Wit_C10_AllAttemptsFailed ==
    /\ retryPc = "returned"
    /\ retryResult = "False"
    /\ max_retries = DefaultMaxRetries
    /\ Len(outcomes) = DefaultMaxRetries
    /\ \E i, j \in 1..Len(outcomes) :
         outcomes[i] = "false" /\ outcomes[j] = "raise"

\* the method called by the i-th collaborator call of the run
Meth(i) ==
    LET st == SetupSteps[Rank(calls[i].pc)] IN <<st.obj, st.m>>

\* A call that reports failure to quick_setup.  A False root check is no
\* failure (elevation is tried next), and a process that left returns none.
FailureReport(c) ==
    /\ c.o \notin {"true", "leave"}
    /\ ~(c.pc = "root_check" /\ c.o = "false")

InPipelineOrder ==
    \A i, j \in 1..Len(calls) : i < j => Rank(calls[i].pc) < Rank(calls[j].pc)

\* C7 (as stated): the steps run one after another, and once any step
\* reports failure no later step is invoked and quick_setup returns False.
CE_C7_AbortOnFirstFailure ==
    /\ InPipelineOrder
    /\ \A i \in 1..Len(calls) :
         FailureReport(calls[i]) =>
            (i = Len(calls) /\ setupPc = "returned" /\ setupResult = "False")

\* C7 (amended): as stated, except that a failed wgcf install is followed
\* by the NextDNS CLI install, the other half of the same stage, before
\* quick_setup returns False.
Thm_C7_AbortOnFirstFailedStage ==
    /\ InPipelineOrder
    /\ setupResult = "True" => \A i \in 1..Len(calls) : ~FailureReport(calls[i])
    /\ \A i \in 1..Len(calls) :
         FailureReport(calls[i]) =>
            IF calls[i].pc = "install_wgcf"
            THEN \/ (i = Len(calls) /\ setupPc = "install_nextdns")
                 \/ (/\ i = Len(calls) - 1
                     /\ calls[i + 1].pc = "install_nextdns"
                     /\ setupPc = "returned"
                     /\ setupResult = "False")
            ELSE i = Len(calls) /\ setupPc = "returned" /\ setupResult = "False"

Wit_C7_StartFailureAborts ==
    /\ setupResult = "False"
    /\ Len(calls) >= 1
    /\ calls[Len(calls)].pc = "start_warp"
    /\ FailureReport(calls[Len(calls)])

CalledBefore(a, b) ==
    \E i, j \in 1..Len(calls) : i < j /\ Meth(i) = a /\ Meth(j) = b

\* C8: a run of quick_setup that returns True has elevated, installed both
\* CLIs, registered, generated, patched the profile's DNS, installed the
\* profile, created the service units and only then started both services.
CE_C8_SuccessfulRunOrder ==
    setupResult = "True" =>
        /\ is_elevated
        /\ CalledBefore(<<"wgcf", "install">>, <<"wgcf", "register">>)
        /\ CalledBefore(<<"nextdns", "install">>, <<"wgcf", "register">>)
        /\ CalledBefore(<<"wgcf", "register">>, <<"wgcf", "generate_config">>)
        /\ CalledBefore(<<"wgcf", "generate_config">>,
                        <<"wgcf", "modify_profile_for_nextdns">>)
        /\ CalledBefore(<<"wgcf", "modify_profile_for_nextdns">>,
                        <<"wgcf", "install_profile">>)
        /\ CalledBefore(<<"wgcf", "install_profile">>, <<"wgcf", "create_service">>)
        /\ CalledBefore(<<"wgcf", "create_service">>, <<"wgcf", "start_service">>)
        /\ CalledBefore(<<"nextdns", "create_service">>, <<"wgcf", "start_service">>)
        /\ CalledBefore(<<"wgcf", "start_service">>, <<"nextdns", "start_service">>)

\* methods that would undo a step
CompensatingMethods ==
    {"stop_service", "stop", "uninstall", "remove_service", "cleanup"}

\* C9: a failed quick_setup undoes nothing: it calls no compensating
\* method, and the effect of every step that completed before the failure
\* is still in place when it returns.
Thm_C9_NoRollback ==
    setupResult = "False" =>
        \A i \in 1..Len(calls) :
            /\ Meth(i)[2] \notin CompensatingMethods
            /\ EffectOf(calls[i].pc, calls[i].o) \subseteq effects

Wit_C9_WarpLeftRunning ==
    /\ setupResult = "False"
    /\ Len(calls) >= 2
    /\ calls[Len(calls)].pc = "start_nextdns"
    /\ calls[Len(calls) - 1] = [pc |-> "start_warp", o |-> "true"]
    /\ {"warp_started", "warp_unit", "nextdns_unit"} \subseteq effects

\* C2: restore_backup on an archive a successful create_backup produced
\* succeeds, and restores exactly the files its metadata lists.
CE_C2_BackupRoundTrip ==
    (lastOp = "restore" /\ lastRestore.name \in DOMAIN archives) =>
        /\ lastRestore.success
        /\ lastRestore.restored_files = archives[lastRestore.name].meta

\* C3: once more than max_backups backups have been created, the backup
\* directory holds exactly max_backups archives when create_backup returns.
CE_C3_RetentionCount ==
    (lastOp = "create" /\ lastCreate.success
        /\ created > backup_config.max_backups) =>
        Cardinality(DOMAIN archives) = backup_config.max_backups

\* C4: every archive the cleanup deleted has an older modification time
\* than every archive it kept, and the archive just created is kept.
CE_C4_RetentionOrder ==
    (lastOp = "create" /\ lastCreate.success) =>
        /\ lastCreate.name \in DOMAIN archives
        /\ \A d \in lastDeleted :
             \A n \in DOMAIN archives : d < archives[n].mtime

\* C11: every failed attempt other than the last one allowed is followed by
\* a backoff wait of 2**attempt seconds, however the attempt failed (False
\* returned or exception raised), and no wait follows the final attempt.
CE_C11_BackoffAfterEveryFailure ==
    /\ \A i \in 1..Len(outcomes) :
         (Failed(outcomes[i]) /\ i - 1 < max_retries - 1) =>
            \E j \in 1..Len(waits) : waits[j] = <<i - 1, 2 ^ (i - 1)>>
    /\ \A j \in 1..Len(waits) : waits[j][1] < max_retries - 1

\* whether the operation behind the finished CLI command failed: for stop,
\* whether stopping either service failed
OperationFailed ==
    IF cliCmd = "stop"
    THEN \E i \in 1..Len(svcCalls) : svcCalls[i].o # "true"
    ELSE opResult = "False"

\* C12: whenever the operation behind the setup, start or stop command
\* fails (for stop: whenever stopping the WARP or the NextDNS service
\* fails), the command prints a failure message and exits with code 1; a
\* success message with exit code 0 occurs only when the operation
\* succeeded.
CE_C12_CliFailureReported ==
    (cliPc = "exited" /\ cliCmd \in {"setup", "start", "stop"}) =>
        /\ OperationFailed => (message = "failure" /\ exitCode = 1)
        /\ (message = "success" /\ exitCode = 0) =>
              (opResult = "True" /\ ~OperationFailed)

\* C13: when the signal handler has ended the process, it has attempted to
\* stop the WARP service and the NextDNS service (the latter also when the
\* WARP stop failed or raised) and the exit code is 0.
CE_C13_SignalStopsBothAndExits ==
    (cliCmd = "signal" /\ cliPc = "exited") =>
        /\ exitCode = 0
        /\ \E i \in 1..Len(svcCalls) : svcCalls[i].pc = "stop_warp"
        /\ \E i \in 1..Len(svcCalls) : svcCalls[i].pc = "stop_nextdns"

\* C14: get_status keeps no state between calls: a call leaves self.status
\* and is_elevated as they were, and the mapping it returns is the one built
\* from the collaborators' answers of that very call, whatever an earlier
\* call returned.
Thm_C14_GetStatusKeepsNoState ==
    [][/\ status' = status
       /\ is_elevated' = is_elevated
       /\ statusResult' =
            StatusMap(probes'[1], probes'[2], probes'[3], probes'[4],
                      probes'[5], probes'[6], probes'[7])]_vars

\* a later call has returned a full mapping on an elevated manager
Wit_C14_SecondCallReturned ==
    /\ statusCalls >= 2
    /\ is_elevated
    /\ status = NoStatus
    /\ statusResult # NoStatus
    /\ "Error" \notin DOMAIN statusResult

InitRoot ==
    /\ binding = "repo"
    /\ StatusIdle
    /\ PatchIdle
    /\ RetryIdle
    /\ SetupIdle
    /\ BackupIdle
    /\ CliIdle
    /\ system \in Systems
    /\ euid \in 0..MaxUid
    /\ adminQuery \in AdminQueryAnswers
    /\ rootResult = "none"
    /\ SecurityIdle
    /\ ErrorIdle
    /\ ExtraIdle

NextRoot ==
    CheckRootAccess
      /\ UNCHANGED <<binding, statusVars, patchVars, retryVars, setupVars,
                     backupVars, cliVars, secVars, errVars,
                     extraVars>>

SpecRoot == InitRoot /\ [][NextRoot]_vars

\* C17: check_root_access returns a boolean and never raises: on Linux
\* True exactly when the effective uid is 0, on Windows False when the
\* admin query fails, and False on every other platform.
Thm_C17_RootCheckNeverRaises ==
    rootResult # "none" =>
        /\ rootResult \in {"True", "False"}
        /\ system = "linux" => (rootResult = "True" <=> euid = 0)
        /\ (system = "windows" /\ adminQuery = "raise") => rootResult = "False"
        /\ system \notin {"linux", "windows"} => rootResult = "False"

Wit_C17_WindowsQueryFailed ==
    /\ system = "windows"
    /\ adminQuery = "raise"
    /\ rootResult = "False"

InitSecurity ==
    /\ binding = "repo"
    /\ StatusIdle
    /\ PatchIdle
    /\ RetryIdle
    /\ SetupIdle
    /\ BackupIdle
    /\ CliIdle
    /\ RootIdle
    /\ SecurityIdle
    /\ ErrorIdle
    /\ ExtraIdle

notSecurityVars ==
    <<binding, statusVars, patchVars, retryVars, setupVars, backupVars,
      cliVars, rootVars, errVars, extraVars>>

NextSecurity ==
    \/ SecurityStartup /\ UNCHANGED notSecurityVars
    \/ EncryptData /\ UNCHANGED notSecurityVars
    \/ DecryptData /\ UNCHANGED notSecurityVars
    \/ SecureConfigFile /\ UNCHANGED notSecurityVars
    \/ CleanupOldFiles /\ UNCHANGED notSecurityVars
    \/ ClockJump /\ UNCHANGED notSecurityVars

SpecSecurity == InitSecurity /\ [][NextSecurity]_vars

\* C15: once a key has been generated and persisted, every later startup
\* loads that same key instead of generating one, whatever SecurityManager
\* operations ran in between; so what an earlier session encrypted can be
\* decrypted by the session a startup has just opened.
CE_C15_KeyGeneratedOnce ==
    (secOp = "startup" /\ firstPersisted # NoKey) =>
        /\ encryption_key = firstPersisted
        /\ cipherKey = firstPersisted => cipherKey = encryption_key
        /\ configValue = firstPersisted => configValue = encryption_key

\* whether day now lies inside the validity period of a certificate issued
\* on day issued
InValidityPeriod(issued, now) ==
    issued # Absent /\ issued <= now /\ now <= issued + CertValidityDays

\* whether all three certificate files exist and the certificate is inside
\* its validity period
StoredCertificateValid(cf, now) ==
    /\ \A f \in CertFileNames : cf[f] # Absent
    /\ InValidityPeriod(cf["certificate"], now)

InitError ==
    /\ binding = "repo"
    /\ StatusIdle
    /\ PatchIdle
    /\ RetryIdle
    /\ SetupIdle
    /\ BackupIdle
    /\ CliIdle
    /\ RootIdle
    /\ SecurityIdle
    /\ ErrorIdle
    /\ ExtraIdle

notErrorVars ==
    <<binding, statusVars, patchVars, retryVars, setupVars, backupVars,
      cliVars, rootVars, secVars, extraVars>>

NextError ==
    \/ HandleError /\ UNCHANGED notErrorVars
    \/ AddErrorCallback /\ UNCHANGED notErrorVars
    \/ AddRecoveryStrategy /\ UNCHANGED notErrorVars

SpecError == InitError /\ [][NextError]_vars

\* C18: for every exception and context, with any registered callbacks and
\* recovery strategies, handle_error returns (does not raise) a record whose
\* error_type, error_message and context are those of the call, with a
\* user-friendly message, a list of recovery suggestions and a severity,
\* and whose 'handled' is True exactly when the recovery reported success.
CE_C18_HandleErrorReturnsRecord ==
    lastError # NoError =>
        /\ errorRaised = "none"
        /\ errorResult # NoResult
        /\ errorResult.error_type = lastError.error_type
        /\ errorResult.error_message = lastError.text
        /\ errorResult.context = lastError.context
        /\ {"user_friendly_message", "recovery_suggestions", "severity"}
              \subseteq DOMAIN errorResult
        /\ errorResult.handled <=>
              ("success" \in DOMAIN recovery /\ recovery.success)

\* C19: the user-friendly message of a FileNotFoundError contains the text
\* 'Required file or directory not found' in every context, the context
\* 'wgcf' included.
CE_C19_FileNotFoundDefaultText ==
    (errorResult # NoResult /\ lastError.error_type = "FileNotFoundError") =>
        Contains(errorResult.user_friendly_message, DefaultText)

\* C20: in every handle_error call every registered callback is invoked
\* exactly once, in registration order, whether or not an earlier callback
\* raised, and a raising callback does not make handle_error raise.
CE_C20_EveryCallbackInvokedOnce ==
    lastError # NoError =>
        /\ invoked = [i \in 1..Len(error_callbacks) |-> i]
        /\ (\E i \in 1..Len(error_callbacks) : error_callbacks[i] = "raise")
              => errorRaised = "none"

\* the results a built-in recovery can give for the last error
BuiltinResults ==
    {BuiltinRecovery(lastError.error_type, lastError.context, probe) :
       probe \in BOOLEAN}

coreVars ==
    <<binding, statusVars, patchVars, retryVars, setupVars, backupVars,
      cliVars, rootVars, secVars, errVars>>

CoreIdle ==
    /\ binding = "repo"
    /\ StatusIdle
    /\ PatchIdle
    /\ RetryIdle
    /\ SetupIdle
    /\ BackupIdle
    /\ CliIdle
    /\ RootIdle
    /\ SecurityIdle
    /\ ErrorIdle

InitNav ==
    /\ CoreIdle
    /\ menu_stack = <<>>
    /\ current_menu = "main"
    /\ menu_history = <<>>
    /\ frames = <<>>
    /\ navOp = "none"
    /\ navResult = NoCall
    /\ navAuto \in BOOLEAN
    /\ loopPc = "idle"
    /\ nOptions = 0
    /\ optionsOk = TRUE
    /\ choice = Choice("none")
    /\ MonitorIdle
    /\ ScriptIdle

NextNav ==
    \/ PushMenuCall /\ UNCHANGED <<coreVars, monVars, scriptVars>>
    \/ PopMenuCall /\ UNCHANGED <<coreVars, monVars, scriptVars>>
    \/ GetCurrentMenu /\ UNCHANGED <<coreVars, monVars, scriptVars>>
    \/ RunMenuLoop /\ UNCHANGED <<coreVars, monVars, scriptVars>>
    \/ ShowMenuAuto /\ UNCHANGED <<coreVars, monVars, scriptVars>>
    \/ ShowMenuOther /\ UNCHANGED <<coreVars, monVars, scriptVars>>
    \/ ShowMenuExit /\ UNCHANGED <<coreVars, monVars, scriptVars>>
    \/ ExecuteMenuOption /\ UNCHANGED <<coreVars, monVars, scriptVars>>

SpecNav == InitNav /\ [][NextNav]_vars

\* The menu that the pushes and pops so far leave current: the menu of the
\* most recent push not yet popped, or "main".
OutstandingMenu(fs) == IF fs = <<>> THEN "main" ELSE fs[Len(fs)].menu

\* C22: get_current_menu returns the most recently pushed menu that has
\* not been popped, or "main" when there is none; pop_menu with a push
\* outstanding returns the menu that was current before the matching push,
\* which is not None, and pop_menu on an empty stack returns None and
\* changes neither the stack nor the current menu.
Thm_C22_MenuStack ==
    [][/\ navOp' = "get" => navResult' = OutstandingMenu(frames')
       /\ current_menu' = OutstandingMenu(frames')
       /\ navOp' = "pop" =>
            IF frames # <<>>
            THEN /\ navResult' = frames[Len(frames)].before
                 /\ navResult' # NoneValue
                 /\ frames' = SubSeq(frames, 1, Len(frames) - 1)
            ELSE /\ navResult' = NoneValue
                 /\ menu_stack' = menu_stack
                 /\ current_menu' = current_menu
                 /\ menu_history' = menu_history]_vars

\* A pop after two pushes returned the first pushed menu, which is current
\* again.
Wit_C22_PoppedToFirstPush ==
    /\ navOp = "pop"
    /\ Len(menu_history) = 2
    /\ Len(frames) = 1
    /\ navResult = menu_history[1]
    /\ current_menu = menu_history[1]
    /\ menu_history[2] # menu_history[1]

\* The menu loop with its scheduling: the loop is sequential code, so the
\* step it is at is eventually taken, and the interactive user eventually
\* chooses Exit when asked again and again.
SpecNavFair ==
    /\ SpecNav
    /\ WF_vars(ShowMenuAuto /\ UNCHANGED <<coreVars, monVars, scriptVars>>)
    /\ WF_vars(ExecuteMenuOption /\ UNCHANGED <<coreVars, monVars, scriptVars>>)
    /\ SF_vars(ShowMenuExit /\ UNCHANGED <<coreVars, monVars, scriptVars>>)

\* C28: a run_menu_loop that was entered eventually leaves, in auto mode
\* as well as in interactive mode with a user who eventually chooses Exit.
CE_C28_MenuLoopTerminates == (loopPc = "show") ~> (loopPc = "left")

\* The entries tests/test_basic.py expects in the mapping of get_status.
SummaryEntries ==
    {"timestamp", "platform", "architecture", "python_version", "services",
     "tools", "network"}

\* C23: when the internet, WARP-IP and DNS probes succeed, the mapping
\* returned by get_status contains the entries 'timestamp', 'platform',
\* 'architecture', 'python_version', 'services', 'tools' and 'network'.
CE_C23_StatusHasSummaryEntries ==
    (/\ statusResult # NoStatus
     /\ probes[5] = "true" /\ probes[6] = "true" /\ probes[7] = "true")
        => SummaryEntries \subseteq DOMAIN statusResult

\* -------------------------------------------------------------------------
\* NetworkMonitor: the monitoring threads and the sample history
\* -------------------------------------------------------------------------

InitMonitor ==
    /\ CoreIdle
    /\ NavIdle
    /\ history_size \in 0..MaxHistory
    /\ metrics_history = <<>>
    /\ is_monitoring = FALSE
    /\ monitor_thread = NoThread
    /\ threadPc = [t \in Threads |-> "unborn"]
    /\ pending = [t \in Threads |-> NoSample]
    /\ sampled = 0
    /\ appended = {}
    /\ monPc = "idle"
    /\ monOp = "none"
    /\ ScriptIdle

NextMonitor ==
    \/ StartMonitoring /\ UNCHANGED <<coreVars, navVars, scriptVars>>
    \/ StopMonitoring /\ UNCHANGED <<coreVars, navVars, scriptVars>>
    \/ JoinReturns /\ UNCHANGED <<coreVars, navVars, scriptVars>>
    \/ \E t \in Threads : LoopTest(t) /\ UNCHANGED <<coreVars, navVars, scriptVars>>
    \/ \E t \in Threads : Sample(t) /\ UNCHANGED <<coreVars, navVars, scriptVars>>
    \/ \E t \in Threads : AppendSample(t) /\ UNCHANGED <<coreVars, navVars, scriptVars>>
    \/ \E t \in Threads : Wake(t) /\ UNCHANGED <<coreVars, navVars, scriptVars>>

SpecMonitor == InitMonitor /\ [][NextMonitor]_vars

\* C24: at most one monitoring loop is at work at any time: there are never
\* two _monitor_loop threads inside the loop body (measuring or appending
\* to metrics_history), whatever start_monitoring and stop_monitoring calls
\* were made.
CE_C24_SingleMonitorLoop ==
    Cardinality({t \in Threads : threadPc[t] \in {"sample", "append"}}) <= 1

\* C25: metrics_history holds at most history_size samples, and they are
\* the most recent of the samples appended so far, in sampling order (so
\* that what a full history dropped is older than everything it holds).
CE_C25_HistoryBoundedMostRecent ==
    /\ Len(metrics_history) <= history_size
    /\ \A i, j \in 1..Len(metrics_history) :
         i < j => metrics_history[i] < metrics_history[j]
    /\ \A i \in 1..Len(metrics_history) : metrics_history[i] \in appended
    /\ \A s \in appended :
         (\A i \in 1..Len(metrics_history) : metrics_history[i] # s)
            => /\ Len(metrics_history) = history_size
               /\ \A i \in 1..Len(metrics_history) : s < metrics_history[i]

\* C26: verify_backup reports valid for every archive that create_backup
\* produced and that is still in the backup directory as it was written,
\* compressed (.tar.gz) or not (.zip), and reports invalid with an error
\* for a missing file.
CE_C26_VerifyAcceptsCreatedArchives ==
    lastOp = "verify" =>
        IF lastVerify.name \in DOMAIN archives
        THEN lastVerify.valid
        ELSE ~lastVerify.valid /\ lastVerify.error # "none"

\* C27: a restore_backup call that returns success False leaves the file
\* system as it found it: nothing is written to the restore location and
\* no temporary restore directory is left behind in the backup directory.
CE_C27_FailedRestoreLeavesNothing ==
    [][(lastOp' = "restore" /\ ~lastRestore'.success)
          => /\ restoreLocation' = restoreLocation
             /\ tempLeft' = tempLeft]_vars

\* C29: start_services starts the WARP service first and attempts the
\* NextDNS start only after the WARP start succeeded; it returns True only
\* when both starts succeeded.  stop_services attempts to stop both
\* services, whatever the first stop did.
CE_C29_StartInOrderStopBoth ==
    cliPc = "exited" =>
        /\ cliCmd = "start" =>
             /\ svcCalls[1].pc = "start_warp"
             /\ \A i \in 1..Len(svcCalls) :
                  svcCalls[i].pc = "start_nextdns" =>
                      i = 2 /\ svcCalls[1].o = "true"
             /\ svcCalls[1].o # "true" => Len(svcCalls) = 1
             /\ opResult = "True" =>
                  /\ Len(svcCalls) = 2
                  /\ svcCalls[1].o = "true" /\ svcCalls[2].o = "true"
        /\ cliCmd = "stop" =>
             /\ \E i \in 1..Len(svcCalls) : svcCalls[i].pc = "stop_warp"
             /\ \E i \in 1..Len(svcCalls) : svcCalls[i].pc = "stop_nextdns"

\* -------------------------------------------------------------------------
\* push-without-workflows.py
\* -------------------------------------------------------------------------

InitScript ==
    /\ CoreIdle
    /\ NavIdle
    /\ MonitorIdle
    /\ scriptPc = "start"
    /\ \E ahead \in 0..MaxAhead : branch = BranchAhead(ahead)
    /\ branchBefore = branch
    /\ workflowFiles \in BOOLEAN
    /\ tracked \in BOOLEAN
    /\ backupFiles = FALSE
    /\ has_workflows = FALSE
    /\ pushResult = "none"
    /\ exitStatus = Running

notScriptVars == <<coreVars, navVars, monVars>>

NextScript ==
    \/ Preflight /\ UNCHANGED notScriptVars
    \/ StashWorkflowFiles /\ UNCHANGED notScriptVars
    \/ TempCommit /\ UNCHANGED notScriptVars
    \/ Push /\ UNCHANGED notScriptVars
    \/ RestoreAfterFailure /\ UNCHANGED notScriptVars
    \/ RestoreAfterSuccess /\ UNCHANGED notScriptVars

SpecScript == InitScript /\ [][NextScript]_vars

\* C30: when the script has ended after stashing the workflow files, the
\* files are back in .github/workflows, and when the push failed the
\* branch head is the commit it was before the run.
CE_C30_PushNeverLosesWork ==
    scriptPc = "done" =>
        /\ has_workflows => workflowFiles
        /\ pushResult = "failed" => branch = branchBefore
====
